---- MODULE Spec2Model ----
(***************************************************************************)
(* arpchat: the ARP-tunnelled transport (packet layer, fragmentation,      *)
(* reassembly, duplicate suppression) and the network worker loop.         *)
(*                                                                         *)
(* Bytes are the naturals 0..255, byte strings are sequences of bytes.     *)
(* A Rust String is represented by its UTF-8 bytes, a char by its scalar   *)
(* value, an Id ([u8; 8]) by a sequence of 8 bytes.  A Rust panic is the   *)
(* outcome "Panic" of the operator that models the panicking function.     *)
(***************************************************************************)
EXTENDS Integers, Sequences, FiniteSets, TLC

VARIABLES
    \* --- packet layer (Packet::serialize / Packet::deserialize) ---
    cpc,        \* "off" | "idle" | "deserialized" | "roundtrip" | "wire"
    cin,        \* the input of the codec call
    cout,       \* the outcome of the codec call
    \* --- Channel, sending side ---
    spc,        \* "off" | "idle" | "sent"
    ether_type, \* Channel.ether_type
    sin,        \* the arguments of the last send(): packet, id drawn, and
                \* the number of the frame on which tx.send_to fails (0: none)
    sres,       \* the result of the last send()
    wire,       \* the frames the last send() handed to tx, in order
    \* --- Channel, receiving side ---
    rpc,        \* "off" | "run"
    buffer,     \* Channel.buffer: PacketId -> slots
    recent,     \* Channel.recent: [data, index]
    rres,       \* the outcome of the last try_recv()
    rin,        \* what the last try_recv() read from rx: of a peer's frame,
                \* the part on which it delivered (on; 0: it did not); of
                \* another frame, the frame and what held before the call
    flights,    \* the packets peers have sent and, of each, the parts fed
                \* before (got) and after (again) all were fed, the number of
                \* times try_recv() delivered on one of its parts (count),
                \* and what it delivered last (out)
    flightsLeft,\* packets peers have still to send
    advIds,     \* the PacketIds of the fragments fed that no send() made
    advLeft,    \* frames that no send() made still to come
    \* --- the network worker (start_net_thread) ---
    wpc,        \* "off" | "open" | "cmd" | "recv" | "beat" | "exited" |
                \* "panicked": the part of the loop body to run next;
                \* "returned" | "unwound": the thread has ended
    channel,    \* "none" | "some"; an open channel is ether_type, buffer,
                \* recent above
    state,      \* NetThreadState
    local_username,
    pause_heartbeat,
    last_heartbeat,
    online,     \* PeerId -> [at, username]
    offline,
    cmds,       \* the command queue (rx of the worker)
    cmdsLeft,   \* commands the UI has still to send
    now,        \* Instant::now(), in seconds
    events,     \* the UICommands the last step put on tx, in order
    sent,       \* the packets the last step gave to channel.send(), with
                \* the results
    updates,    \* history: UpdateUsername commands processed on an open
                \* channel (0, 1, or 2 for more)
    \* --- the UI context (run) ---
    upc         \* "off" | "running" | "terminate" | "join" | "done" |
                \* "send_panicked" | "join_panicked": where run() is

codecVars == <<cpc, cin, cout>>

sendVars == <<spc, ether_type, sin, sres, wire>>

recvVars ==
    <<rpc, buffer, recent, rres, rin, flights, flightsLeft, advIds, advLeft>>

workerVars ==
    <<wpc, channel, state, local_username, pause_heartbeat, last_heartbeat,
      online, offline, cmds, cmdsLeft, now, events, sent, updates, upc>>

vars == <<cpc, cin, cout, spc, ether_type, sin, sres, wire,
          rpc, buffer, recent, rres, rin, flights, flightsLeft, advIds,
          advLeft, wpc, channel, state, local_username, pause_heartbeat,
          last_heartbeat, online, offline, cmds, cmdsLeft, now, events, sent,
          updates, upc>>

----------------------------------------------------------------------------
(* Byte-string helpers                                                     *)

Min(a, b) == IF a < b THEN a ELSE b

\* Rust data[a..b] (0-based, half open); panics unless a <= b <= len.
SliceOk(data, a, b) == a <= b /\ b <= Len(data)

Slice(data, a, b) == SubSeq(data, a + 1, b)

\* Rust data[a..]
SliceFrom(data, a) == SubSeq(data, a + 1, Len(data))

StartsWith(data, prefix) ==
    /\ Len(data) >= Len(prefix)
    /\ \A i \in 1..Len(prefix) : data[i] = prefix[i]

\* n copies of byte b
Repeat(b, n) == [i \in 1..n |-> b]

\* parts[lo] \o ... \o parts[hi], by halves
RECURSIVE ConcatRange(_, _, _)
ConcatRange(parts, lo, hi) ==
    IF lo > hi THEN <<>>
    ELSE IF lo = hi THEN parts[lo]
    ELSE LET mid == (lo + hi) \div 2
         IN  ConcatRange(parts, lo, mid) \o ConcatRange(parts, mid + 1, hi)

\* [a, b, c].concat() over a sequence of byte strings
Concat(parts) == ConcatRange(parts, 1, Len(parts))

----------------------------------------------------------------------------
(* Program constants                                                       *)

ARP_HTYPE == <<0, 1>>
ARP_HLEN == 6
ARP_OPER == <<0, 1>>
PACKET_PREFIX == <<117, 119, 117>>      \* b"uwu"
ID_SIZE == 8
LEN_PREFIX_SIZE == 8
U8_MAX == 255
PACKET_PART_SIZE == U8_MAX - (Len(PACKET_PREFIX) + 3 + ID_SIZE)
RING_CAPACITY == 16

----------------------------------------------------------------------------
(* Integer conversions, with the widths of the program                     *)

\* A length that exceeds every buffer of the model.  u64 values of 2^24 and
\* more are represented by it: in every use the value is only compared with,
\* or added to, buffer offsets far below it.
HugeLen == 256 * 256 * 256

\* the bytes in little-endian order
U64ToLE(n) ==
    <<n % 256, (n \div 256) % 256, (n \div 65536) % 256, 0, 0, 0, 0, 0>>

\* (len as u64).to_be_bytes(), for len < 2^24
U64ToBE(n) ==
    <<0, 0, 0, 0, 0, (n \div 65536) % 256, (n \div 256) % 256, n % 256>>

\* u64::from_be_bytes(bytes) as usize, saturated at HugeLen
U64FromBE(bs) ==
    IF \E i \in 1..5 : bs[i] # 0
    THEN HugeLen
    ELSE bs[6] * 65536 + bs[7] * 256 + bs[8]

\* u32::to_be_bytes(c as u32) for a char c (c <= 0x10FFFF)
U32ToBE(c) == <<0, (c \div 65536) % 256, (c \div 256) % 256, c % 256>>

\* char::from_u32(u32::from_be_bytes(raw)): -1 stands for None.  A value with
\* a non-zero first byte is at least 2^24 and so no scalar value.
CharFromU32BE(raw) ==
    LET v == raw[2] * 65536 + raw[3] * 256 + raw[4]
    IN  IF raw[1] # 0 THEN -1
        ELSE IF v >= 55296 /\ v <= 57343 THEN -1
        ELSE IF v > 1114111 THEN -1
        ELSE v

----------------------------------------------------------------------------
(* String::from_utf8: validity of a byte string as UTF-8                   *)

IsCont(b) == b >= 128 /\ b <= 191

\* number of bytes of the sequence that lead byte b starts, 0 if b cannot
\* start a sequence
Utf8Width(b) ==
    IF b <= 127 THEN 1
    ELSE IF b >= 194 /\ b <= 223 THEN 2
    ELSE IF b >= 224 /\ b <= 239 THEN 3
    ELSE IF b >= 240 /\ b <= 244 THEN 4
    ELSE 0

\* the admissible range of the second byte after lead byte b
Utf8SecondOk(b, c) ==
    IF b = 224 THEN c >= 160 /\ c <= 191
    ELSE IF b = 237 THEN c >= 128 /\ c <= 159
    ELSE IF b = 240 THEN c >= 144 /\ c <= 191
    ELSE IF b = 244 THEN c >= 128 /\ c <= 143
    ELSE IsCont(c)

\* the sequence starting at position i is well formed
Utf8SeqOk(s, i) ==
    LET w == Utf8Width(s[i])
    IN  /\ w > 0
        /\ i + w - 1 <= Len(s)
        /\ w >= 2 => Utf8SecondOk(s[i], s[i + 1])
        /\ \A k \in 2..(w - 1) : IsCont(s[i + k])

\* Position i is the start of a sequence iff it is the first byte or the
\* sequence before it ends at i-1; UTF-8 is self-synchronising, so a byte
\* string is valid iff every non-continuation byte starts a well-formed
\* sequence and every continuation byte belongs to the sequence of the
\* nearest lead byte before it.
Utf8Valid(s) ==
    \A i \in 1..Len(s) :
        IF IsCont(s[i])
        THEN \E k \in 1..3 :
                /\ i - k >= 1
                /\ ~IsCont(s[i - k])
                /\ \A m \in 1..(k - 1) : IsCont(s[i - m])
                /\ Utf8Width(s[i - k]) > k
        ELSE Utf8SeqOk(s, i)

----------------------------------------------------------------------------
(* smaz::compress / smaz::decompress (external crate), over an excerpt of  *)
(* its codebook: code c stands for SmazCodebook[c + 1]; 254 b is one       *)
(* verbatim byte, 255 n b0..bn is n+1 verbatim bytes.  The byte strings of *)
(* the model use no code outside the excerpt.                              *)

SmazCodebook ==
    << <<32>>, <<116, 104, 101>>, <<101>>, <<116>>, <<97>>, <<111, 102>>,
       <<111>>, <<97, 110, 100>>, <<105>>, <<110>>, <<115>>, <<101, 32>>,
       <<114>>, <<32, 116, 104>>, <<32, 116>>, <<105, 110>>, <<104, 101>>,
       <<116, 104>>, <<104>>, <<104, 101, 32>> >>

SmazMaxMatch == 7

InCodebook(sub) == \E c \in 1..Len(SmazCodebook) : SmazCodebook[c] = sub

CodeOf(sub) == (CHOOSE c \in 1..Len(SmazCodebook) : SmazCodebook[c] = sub) - 1

SmazEntry(c) == IF c < Len(SmazCodebook) THEN SmazCodebook[c + 1] ELSE <<63>>

FlushVerbatim(verb) ==
    IF verb = <<>> THEN <<>>
    ELSE IF Len(verb) > 1 THEN <<255, Len(verb) - 1>> \o verb
    ELSE <<254>> \o verb

\* the length of the longest codebook entry that starts at position i
\* (1-based) of s, 0 if none
LongestMatch(s, i) ==
    LET cand == {n \in 1..Min(SmazMaxMatch, Len(s) - i + 1) :
                    InCodebook(SubSeq(s, i, i + n - 1))}
    IN  IF cand = {} THEN 0 ELSE CHOOSE n \in cand : \A m \in cand : m <= n

RECURSIVE SmazCompressFrom(_, _, _)
SmazCompressFrom(s, i, verb) ==
    IF i > Len(s) THEN FlushVerbatim(verb)
    ELSE LET n == LongestMatch(s, i)
         IN  IF n > 0
             THEN FlushVerbatim(verb) \o <<CodeOf(SubSeq(s, i, i + n - 1))>>
                    \o SmazCompressFrom(s, i + n, <<>>)
             ELSE IF Len(verb) + 1 = 256
             THEN FlushVerbatim(Append(verb, s[i]))
                    \o SmazCompressFrom(s, i + 1, <<>>)
             ELSE SmazCompressFrom(s, i + 1, Append(verb, s[i]))

SmazCompress(s) == SmazCompressFrom(s, 1, <<>>)

\* [ok |-> FALSE] is Err(DecompressError)
RECURSIVE SmazDecompressFrom(_, _)
SmazDecompressFrom(d, i) ==
    IF i > Len(d) THEN [ok |-> TRUE, out |-> <<>>]
    ELSE IF d[i] = 254
    THEN IF i + 1 > Len(d) THEN [ok |-> FALSE]
         ELSE LET rest == SmazDecompressFrom(d, i + 2)
              IN  IF rest.ok
                  THEN [ok |-> TRUE, out |-> <<d[i + 1]>> \o rest.out]
                  ELSE rest
    ELSE IF d[i] = 255
    THEN IF i + 1 > Len(d) \/ i + 1 + d[i + 1] + 1 > Len(d)
         THEN [ok |-> FALSE]
         ELSE LET n == d[i + 1] + 1
                  rest == SmazDecompressFrom(d, i + 2 + n)
              IN  IF rest.ok
                  THEN [ok |-> TRUE,
                        out |-> SubSeq(d, i + 2, i + 1 + n) \o rest.out]
                  ELSE rest
    ELSE LET rest == SmazDecompressFrom(d, i + 1)
         IN  IF rest.ok
             THEN [ok |-> TRUE, out |-> SmazEntry(d[i]) \o rest.out]
             ELSE rest

SmazDecompress(d) == SmazDecompressFrom(d, 1)

----------------------------------------------------------------------------
(* Packet layer                                                            *)

Message(id, author, chan, message) ==
    [type |-> "Message", id |-> id, author |-> author,
     channel |-> chan, message |-> message]

PresenceReq == [type |-> "PresenceReq"]

Presence(id, is_join, name) ==
    [type |-> "Presence", id |-> id, is_join |-> is_join, name |-> name]

Disconnect(id) == [type |-> "Disconnect", id |-> id]

Reaction(id, ch) == [type |-> "Reaction", id |-> id, ch |-> ch]

\* Option<Packet> and the panic outcome
NoPacket == [kind |-> "None"]
SomePacket(p) == [kind |-> "Some", pkt |-> p]
Panic == [kind |-> "Panic"]

Tag(p) ==
    CASE p.type = "Message" -> 0
      [] p.type = "PresenceReq" -> 1
      [] p.type = "Presence" -> 2
      [] p.type = "Disconnect" -> 3
      [] p.type = "Reaction" -> 4

Serialize(p) ==
    CASE p.type = "Message" ->
            p.id \o p.author \o U64ToBE(Len(p.channel)) \o p.channel
                \o SmazCompress(p.message)
      [] p.type = "PresenceReq" -> <<>>
      [] p.type = "Presence" ->
            p.id \o <<IF p.is_join THEN 1 ELSE 0>> \o p.name
      [] p.type = "Disconnect" -> p.id
      [] p.type = "Reaction" -> p.id \o U32ToBE(p.ch)

DeserializeMessage(data) ==
    LET id_start == 0
        user_id_start == id_start + ID_SIZE
        chan_len_start == user_id_start + ID_SIZE
        chan_start == chan_len_start + LEN_PREFIX_SIZE
    IN  IF ~SliceOk(data, chan_len_start, chan_start) THEN Panic
        ELSE
        LET chan_len == U64FromBE(Slice(data, chan_len_start, chan_start))
            str_start == chan_start + chan_len
        IN  IF ~SliceOk(data, chan_start, str_start) THEN Panic
            ELSE
            LET chan == Slice(data, chan_start, str_start)
                raw_str == SmazDecompress(SliceFrom(data, str_start))
            IN  IF ~Utf8Valid(chan) THEN NoPacket
                ELSE IF ~raw_str.ok THEN NoPacket
                ELSE IF ~Utf8Valid(raw_str.out) THEN NoPacket
                ELSE SomePacket(Message(Slice(data, id_start, user_id_start),
                                        Slice(data, user_id_start, chan_len_start),
                                        chan, raw_str.out))

DeserializePresence(data) ==
    IF ~SliceOk(data, 0, ID_SIZE) THEN Panic
    ELSE IF ID_SIZE >= Len(data) THEN Panic
    ELSE LET str == SliceFrom(data, ID_SIZE + 1)
         IN  IF ~Utf8Valid(str) THEN NoPacket
             ELSE SomePacket(Presence(Slice(data, 0, ID_SIZE),
                                      data[ID_SIZE + 1] > 0, str))

DeserializeDisconnect(data) ==
    IF Len(data) # ID_SIZE THEN NoPacket ELSE SomePacket(Disconnect(data))

DeserializeReaction(data) ==
    IF ~SliceOk(data, 0, ID_SIZE) THEN Panic
    ELSE LET raw == SliceFrom(data, ID_SIZE)
         IN  IF Len(raw) # 4 THEN NoPacket
             ELSE IF CharFromU32BE(raw) = -1 THEN NoPacket
             ELSE SomePacket(Reaction(Slice(data, 0, ID_SIZE),
                                      CharFromU32BE(raw)))

Deserialize(tag, data) ==
    CASE tag = 0 -> DeserializeMessage(data)
      [] tag = 1 -> SomePacket(PresenceReq)
      [] tag = 2 -> DeserializePresence(data)
      [] tag = 3 -> DeserializeDisconnect(data)
      [] tag = 4 -> DeserializeReaction(data)
      [] OTHER -> NoPacket

----------------------------------------------------------------------------
(* Channel::send and Channel::send_part                                    *)

EtherTypes == {"Experimental1", "Experimental2", "IPv4"}

EtherTypeDefault == "Experimental1"

EtherTypeBytes(e) ==
    CASE e = "Experimental1" -> <<136, 181>>
      [] e = "Experimental2" -> <<136, 182>>
      [] e = "IPv4" -> <<8, 0>>

ETHERTYPE_ARP == <<8, 6>>

MAC_BROADCAST == Repeat(255, 6)

ETH_HEADER_LEN == 14

\* chunks of u8::MAX bytes, leaving no room for the header of a part
ChunksOfU8Max(data) ==
    LET n == (Len(data) + U8_MAX - 1) \div U8_MAX
    IN  [k \in 1..n |->
            SubSeq(data, U8_MAX * (k - 1) + 1, Min(U8_MAX * k, Len(data)))]

\* data.chunks(PACKET_PART_SIZE)
Chunks(data) ==
    LET n == (Len(data) + PACKET_PART_SIZE - 1) \div PACKET_PART_SIZE
    IN  [k \in 1..n |->
            SubSeq(data, PACKET_PART_SIZE * (k - 1) + 1,
                   Min(PACKET_PART_SIZE * k, Len(data)))]

\* the parts of send() with one empty part when there is no chunk
SendPartsEmptyPart(data) ==
    IF Chunks(data) = <<>> THEN << <<>> >> ELSE Chunks(data)

\* the parts of send(): the chunks, or the placeholder b"." when there is none
SendParts(data) ==
    IF Chunks(data) = <<>> THEN << <<46>> >> ELSE Chunks(data)

\* parts.len() > u8::MAX
TooLongOffByOne(parts) == Len(parts) > U8_MAX

\* parts.len() - 1 > u8::MAX
TooLong(parts) == Len(parts) - 1 > U8_MAX

\* the application bytes of one part
PartData(tag, seq, total, id, part) ==
    PACKET_PREFIX \o <<tag, seq, total>> \o id \o part

\* the frame with the application bytes in the Sender Protocol Address only
PartFrameOneCopy(src_mac, e, tag, seq, total, id, part) ==
    LET data == PACKET_PREFIX \o <<tag, seq, total>> \o id \o part
        arp_buffer ==
            ARP_HTYPE \o EtherTypeBytes(e) \o <<ARP_HLEN, Len(data) % 256>>
                \o ARP_OPER \o src_mac \o data \o Repeat(0, 6)
                \o Repeat(0, Len(data))
    IN  MAC_BROADCAST \o src_mac \o ETHERTYPE_ARP \o arp_buffer

\* the frame built with the default ether type, whatever the channel's is
PartFrameDefault(src_mac, e, tag, seq, total, id, part) ==
    LET data == PACKET_PREFIX \o <<tag, seq, total>> \o id \o part
        arp_buffer ==
            ARP_HTYPE \o <<136, 181>> \o <<ARP_HLEN, Len(data) % 256>>
                \o ARP_OPER \o src_mac \o data \o Repeat(0, 6) \o data
    IN  MAC_BROADCAST \o src_mac \o ETHERTYPE_ARP \o arp_buffer

\* the Ethernet frame send_part builds
PartFrame(src_mac, e, tag, seq, total, id, part) ==
    LET data == PartData(tag, seq, total, id, part)
        arp_buffer ==
            ARP_HTYPE \o EtherTypeBytes(e) \o <<ARP_HLEN, Len(data) % 256>>
                \o ARP_OPER \o src_mac \o data \o Repeat(0, 6) \o data
    IN  MAC_BROADCAST \o src_mac \o ETHERTYPE_ARP \o arp_buffer

\* send(packet) on a channel with the given source MAC and ether type, where
\* id is the PacketId drawn and tx.send_to fails on frame number failAt
\* (counted from 1; 0: it never fails).  res is the result, frames the
\* frames handed to tx.
Send(src_mac, e, packet, id, failAt) ==
    LET parts == SendParts(Serialize(packet))
        total == (Len(parts) - 1) % 256
        frame(k) == PartFrame(src_mac, e, Tag(packet), (k - 1) % 256, total,
                              id, parts[k])
    IN  IF TooLong(parts) THEN [res |-> "MsgTooLong", frames |-> <<>>]
        ELSE IF failAt \in 1..Len(parts)
        THEN [res |-> "ARPSendFailed",
              frames |-> [k \in 1..(failAt - 1) |-> frame(k)]]
        ELSE [res |-> "Ok", frames |-> [k \in 1..Len(parts) |-> frame(k)]]

----------------------------------------------------------------------------
(* Ringbuffer<Id>                                                          *)

\* Option<Id>::None in a slot of the ring
NoId == <<>>

RingWithCapacity(capacity) == [data |-> Repeat(NoId, capacity), index |-> 0]

\* overwrites the slot at index and leaves index where it is
RingPushInPlace(ring, item) ==
    [data |-> [ring.data EXCEPT ![ring.index + 1] = item],
     index |-> ring.index]

RingPush(ring, item) ==
    [data |-> [ring.data EXCEPT ![ring.index + 1] = item],
     index |-> (ring.index + 1) % Len(ring.data)]

\* finds no item in the ring
RingContainsNone(ring, item) == FALSE

\* looks only at the slot the next push overwrites
RingContainsAtIndex(ring, item) == ring.data[ring.index + 1] = item

RingContains(ring, item) == \E i \in 1..Len(ring.data) : ring.data[i] = item

----------------------------------------------------------------------------
(* Channel::try_recv                                                       *)

Ignored == [kind |-> "Ignored"]

\* The filter and the destructuring of try_recv: the fragment a frame from rx
\* carries, Ignored when try_recv returns Ok(None) before it touches the
\* channel, Panic when an index or a slice is out of range.
ParseFrame(frame) ==
    IF Len(frame) < ETH_HEADER_LEN THEN Ignored
    ELSE
    LET payload == SliceFrom(frame, ETH_HEADER_LEN)
    IN  IF Slice(frame, 12, 14) # ETHERTYPE_ARP THEN Ignored
        ELSE IF ~SliceOk(payload, 6, 8) THEN Panic
        ELSE IF Slice(payload, 6, 8) # ARP_OPER THEN Ignored
        ELSE IF Slice(payload, 0, 2) # ARP_HTYPE THEN Ignored
        ELSE IF payload[4 + 1] # ARP_HLEN THEN Ignored
        ELSE
        LET data_len == payload[5 + 1]
        IN  IF ~SliceOk(payload, 14, 14 + data_len) THEN Panic
            ELSE
            LET data == Slice(payload, 14, 14 + data_len)
            IN  IF ~StartsWith(data, PACKET_PREFIX) THEN Ignored
                ELSE
                LET rest == SliceFrom(data, Len(PACKET_PREFIX))
                IN  IF Len(rest) < 3 THEN Ignored
                    ELSE IF ~SliceOk(SliceFrom(rest, 3), 0, ID_SIZE) THEN Panic
                    ELSE [kind |-> "Fragment",
                          tag |-> rest[1], seq |-> rest[2], total |-> rest[3],
                          id |-> Slice(rest, 3, 3 + ID_SIZE),
                          inner |-> SliceFrom(rest, 3 + ID_SIZE)]

\* parts.iter().any(|p| !p.is_empty())
AnyPartPresent(parts) == \E k \in 1..Len(parts) : parts[k] # <<>>

\* parts.iter().all(|p| !p.is_empty())
AllPartsPresent(parts) == \A k \in 1..Len(parts) : parts[k] # <<>>

\* the map holds the entry of this PacketId and drops every other
BufferPutAlone(buf, id, parts) == [x \in {id} |-> parts]

\* self.buffer.insert(id, parts) / get_mut(&id) = parts
BufferPut(buf, id, parts) ==
    [x \in DOMAIN buf \cup {id} |-> IF x = id THEN parts ELSE buf[x]]

\* the entry is left in the buffer
BufferKeep(buf, id) == buf

\* self.buffer.remove(&id)
BufferRemove(buf, id) == [x \in DOMAIN buf \ {id} |-> buf[x]]

\* The reassembly step of try_recv on a fragment: the outcome and the
\* buffer and ring it leaves.
Reassemble(buf, ring, frag) ==
    LET same == [res |-> NoPacket, buffer |-> buf, recent |-> ring]
        dead == [res |-> Panic, buffer |-> buf, recent |-> ring]
    IN  IF RingContains(ring, frag.id) THEN same
        ELSE
        LET known == frag.id \in DOMAIN buf
            len == IF known THEN Len(buf[frag.id]) ELSE frag.total + 1
        IN  IF frag.seq >= len THEN dead
            ELSE
            LET old == IF known THEN buf[frag.id] ELSE Repeat(<<>>, len)
                parts == [old EXCEPT ![frag.seq + 1] = frag.inner]
                buf1 == BufferPut(buf, frag.id, parts)
            IN  IF ~AllPartsPresent(parts)
                THEN [res |-> NoPacket, buffer |-> buf1, recent |-> ring]
                ELSE
                LET packet == Deserialize(frag.tag, Concat(parts))
                IN  IF packet.kind = "Panic"
                    THEN [res |-> Panic, buffer |-> buf1, recent |-> ring]
                    ELSE IF packet.kind = "Some"
                    THEN [res |-> packet,
                          buffer |-> BufferRemove(buf1, frag.id),
                          recent |-> RingPush(ring, frag.id)]
                    ELSE [res |-> NoPacket, buffer |-> buf1, recent |-> ring]

\* try_recv() when rx.next() yields the frame
TryRecv(buf, ring, frame) ==
    LET frag == ParseFrame(frame)
    IN  IF frag.kind = "Fragment" THEN Reassemble(buf, ring, frag)
        ELSE IF frag.kind = "Panic"
        THEN [res |-> Panic, buffer |-> buf, recent |-> ring]
        ELSE [res |-> NoPacket, buffer |-> buf, recent |-> ring]

----------------------------------------------------------------------------
(* Inputs                                                                  *)

\* number of distinct identifiers
NumIds == 3

IdOf(n) == [i \in 1..ID_SIZE |-> (16 * n + i) % 256]

Ids == {IdOf(n) : n \in 1..NumIds}

LOCAL_MAC == <<2, 0, 0, 0, 0, 1>>

\* a string of n ASCII letters, different in every chunk
LongName(n) == [i \in 1..n |-> 97 + ((i + (i \div PACKET_PART_SIZE)) % 26)]

Names == {<<>>, <<98, 111, 98>>, <<195, 169>>}

ChannelNames == {<<>>, <<103>>}

Bodies == {<<>>, <<104, 105>>, <<116, 104, 101>>, <<120>>, <<120, 195, 169>>,
           <<104, 101, 32, 120, 121, 32>>}

Chars == {97, 233, 128512, 1114111, 0}

CodecPackets ==
    {PresenceReq}
    \cup {Disconnect(id) : id \in {IdOf(1)}}
    \cup {Presence(id, j, n) : id \in {IdOf(1)}, j \in BOOLEAN, n \in Names}
    \cup {Reaction(id, c) : id \in {IdOf(2)}, c \in Chars}
    \cup {Message(id, a, c, m) :
            id \in {IdOf(1)}, a \in {IdOf(2)}, c \in ChannelNames, m \in Bodies}

Prefixes(data) == {SubSeq(data, 1, n) : n \in 0..Len(data)}

\* byte strings that no serialize() produces
BadData ==
    { <<46>>,
      IdOf(1) \o <<0>> \o <<255>>,                      \* invalid UTF-8 name
      IdOf(1) \o <<2>> \o <<98>>,                       \* is_join byte 2
      IdOf(1) \o <<0, 0, 216, 0>>,                      \* surrogate
      IdOf(1) \o <<0, 17, 0, 0>>,                       \* beyond 0x10FFFF
      IdOf(1) \o <<128, 0, 0, 97>>,
      IdOf(1) \o IdOf(2) \o <<255, 255, 255, 255, 255, 255, 255, 255>>,
      IdOf(1) \o IdOf(2) \o U64ToBE(5) \o <<103>>,      \* channel too short
      IdOf(1) \o IdOf(2) \o U64ToBE(1) \o <<255>>,      \* invalid channel
      IdOf(1) \o IdOf(2) \o U64ToBE(0) \o <<254>>,      \* truncated verbatim
      IdOf(1) \o IdOf(2) \o U64ToBE(0) \o <<255, 3, 120>>,
      IdOf(1) \o IdOf(2) \o U64ToBE(0) \o <<254, 255>> }  \* invalid body

CodecData ==
    UNION {Prefixes(Serialize(p)) : p \in CodecPackets} \cup BadData

CodecTags == {0, 1, 2, 3, 4, 5, 255}

----------------------------------------------------------------------------
(* Specification of the packet layer: the codec functions applied to       *)
(* bounded inputs                                                          *)

NoInput == [kind |-> "none"]

SendOff ==
    /\ spc = "off"
    /\ ether_type = EtherTypeDefault
    /\ sin = NoInput
    /\ sres = "none"
    /\ wire = <<>>

CodecOff ==
    /\ cpc = "off"
    /\ cin = NoInput
    /\ cout = NoPacket

EmptyBuffer == [x \in {} |-> <<>>]

RecvOff ==
    /\ rpc = "off"
    /\ buffer = EmptyBuffer
    /\ recent = RingWithCapacity(RING_CAPACITY)
    /\ rres = NoPacket
    /\ rin = NoInput
    /\ flights = <<>>
    /\ flightsLeft = 0
    /\ advIds = {}
    /\ advLeft = 0

NoPeers == [x \in {} |-> [at |-> 0, username |-> <<>>]]

WorkerOff ==
    /\ wpc = "off"
    /\ channel = "none"
    /\ state = "NeedsUsername"
    /\ local_username = <<>>
    /\ pause_heartbeat = FALSE
    /\ last_heartbeat = 0
    /\ online = NoPeers
    /\ offline = {}
    /\ cmds = <<>>
    /\ cmdsLeft = 0
    /\ now = 0
    /\ events = <<>>
    /\ sent = <<>>
    /\ updates = 0
    /\ upc = "off"

CodecInit ==
    /\ cpc = "idle"
    /\ cin = NoInput
    /\ cout = NoPacket
    /\ SendOff
    /\ RecvOff
    /\ WorkerOff

\* Packet::deserialize(tag, data)
DoDeserialize(tag, data) ==
    /\ cpc = "idle"
    /\ cpc' = "deserialized"
    /\ cin' = [kind |-> "bytes", tag |-> tag, data |-> data]
    /\ cout' = Deserialize(tag, data)
    /\ UNCHANGED <<sendVars, recvVars, workerVars>>

\* Packet::deserialize(p.tag(), p.serialize())
DoRoundTrip(p) ==
    /\ cpc = "idle"
    /\ cpc' = "roundtrip"
    /\ cin' = [kind |-> "pkt", pkt |-> p, data |-> Serialize(p)]
    /\ cout' = Deserialize(Tag(p), Serialize(p))
    /\ UNCHANGED <<sendVars, recvVars, workerVars>>

\* the same over the bytes the receiver reassembles from the parts of send()
DoWireRoundTrip(p) ==
    /\ cpc = "idle"
    /\ cpc' = "wire"
    /\ cin' = [kind |-> "pkt", pkt |-> p,
               data |-> Concat(SendParts(Serialize(p)))]
    /\ cout' = Deserialize(Tag(p), Concat(SendParts(Serialize(p))))
    /\ UNCHANGED <<sendVars, recvVars, workerVars>>

CodecNext ==
    \/ \E tag \in CodecTags, data \in CodecData : DoDeserialize(tag, data)
    \/ \E p \in CodecPackets : DoRoundTrip(p)
    \/ \E p \in CodecPackets : DoWireRoundTrip(p)

SpecCodec == CodecInit /\ [][CodecNext]_vars

----------------------------------------------------------------------------
(* Specification of the sending side: Channel::set_ether_type and          *)
(* Channel::send on one channel                                            *)

\* serialized lengths around the fragment boundaries: one part, two parts,
\* three parts, the 500 bytes of scenario S2, 256 parts, and 257 parts
BoundaryLens ==
    { PACKET_PART_SIZE, PACKET_PART_SIZE + 1, 2 * PACKET_PART_SIZE,
      2 * PACKET_PART_SIZE + 1, 500,
      (U8_MAX + 1) * PACKET_PART_SIZE - 1,
      (U8_MAX + 1) * PACKET_PART_SIZE,
      (U8_MAX + 1) * PACKET_PART_SIZE + 1,
      (U8_MAX + 2) * PACKET_PART_SIZE }

\* a Presence whose serialization has n bytes
PresenceOfLen(n) == Presence(IdOf(1), FALSE, LongName(n - ID_SIZE - 1))

SendPackets ==
    CodecPackets \cup {PresenceOfLen(n) : n \in BoundaryLens}

\* tx.send_to fails on the frame of this number, or (0) on none
MaxFailAt == 3

SendIds == {IdOf(1), IdOf(2)}

SendInit ==
    /\ spc = "idle"
    /\ ether_type = EtherTypeDefault
    /\ sin = NoInput
    /\ sres = "none"
    /\ wire = <<>>
    /\ CodecOff
    /\ RecvOff
    /\ WorkerOff

\* Channel::set_ether_type
ChSetEtherType(e) ==
    /\ spc = "idle"
    /\ ether_type' = e
    /\ UNCHANGED <<spc, sin, sres, wire>>
    /\ UNCHANGED <<codecVars, recvVars, workerVars>>

\* Channel::send
ChSend(packet, id, failAt) ==
    /\ spc = "idle"
    /\ spc' = "sent"
    /\ sin' = [kind |-> "send", pkt |-> packet, id |-> id, failAt |-> failAt]
    /\ LET r == Send(LOCAL_MAC, ether_type, packet, id, failAt)
       IN  /\ sres' = r.res
           /\ wire' = r.frames
    /\ UNCHANGED ether_type
    /\ UNCHANGED <<codecVars, recvVars, workerVars>>

SendNext ==
    \/ \E e \in EtherTypes : ChSetEtherType(e)
    \/ \E p \in SendPackets, id \in SendIds, f \in 0..MaxFailAt :
            ChSend(p, id, f)

SpecSend == SendInit /\ [][SendNext]_vars

----------------------------------------------------------------------------
(* Specifications of the receiving side: Channel::try_recv on one channel. *)
(* SpecRecv feeds it the frames of packets that peers send(), in any order *)
(* and any number of times; SpecFuzz also feeds it frames that no send()   *)
(* made.                                                                   *)

PEER_MAC == <<2, 0, 0, 0, 0, 2>>

\* the packets peers send: one part (the placeholder), two parts, three
\* parts (the 500 bytes of scenario S2)
RecvPackets ==
    { PresenceReq,
      Message(IdOf(1), IdOf(2), LongName(230), <<104, 105>>),
      PresenceOfLen(500) }

\* number of packets peers send in SpecRecv
MaxFlights == 2

\* number of packets peers send in SpecFuzz
FuzzFlights == 1

\* number of frames that no send() made, in SpecFuzz
MaxAdv == 2

\* the ether type the peer uses for its f-th packet
PeerEther(f) == IF f = 1 THEN "Experimental2" ELSE "IPv4"

\* the frames of send(p) on the peer's channel, for every packet, PacketId
\* and ether type of the peers
PeerFrames ==
    [p \in RecvPackets |-> [id \in Ids |-> [e \in EtherTypes |->
        Send(PEER_MAC, e, p, id, 0).frames]]]

FlightFrames(f) == PeerFrames[flights[f].pkt][flights[f].id][PeerEther(f)]

FlightParts(f) == 1..Len(FlightFrames(f))

FlightIds == {flights[f].id : f \in 1..Len(flights)}

\* The PacketId a peer draws is one that nothing on the network has used
\* (the first such, the identifiers being interchangeable).
FreshId ==
    LET used == FlightIds \cup advIds
        free == {n \in 1..NumIds : IdOf(n) \notin used}
    IN  IF free = {} THEN NoId
        ELSE IdOf(CHOOSE n \in free : \A m \in free : n <= m)

\* fragments with arbitrary fields, as some other program could send them
AdvFragments ==
    { [tag |-> t, seq |-> q, total |-> n, id |-> id, inner |-> d] :
        t \in {2, 3}, q \in {0, 1, 2}, n \in {0, 1}, id \in Ids,
        d \in {<<>>, IdOf(2)} }

\* an ARP-shaped Ethernet frame around application bytes; plen is the
\* Protocol Address Length byte
ArpFrame(htype, ptype, hlen, plen, oper, data) ==
    MAC_BROADCAST \o PEER_MAC \o ETHERTYPE_ARP
        \o htype \o ptype \o <<hlen, plen>> \o oper \o PEER_MAC
        \o data \o Repeat(0, 6) \o data

FragmentFrame(g) ==
    PartFrame(PEER_MAC, "Experimental1", g.tag, g.seq, g.total, g.id, g.inner)

\* the application bytes of a well-formed one-part Disconnect
GoodData == PartData(3, 0, 0, IdOf(NumIds), IdOf(2))

GoodFrame ==
    ArpFrame(ARP_HTYPE, <<136, 181>>, ARP_HLEN, Len(GoodData), ARP_OPER,
             GoodData)

\* frames that differ from GoodFrame in one respect
RawFrames ==
    { GoodFrame,
      \* another Protocol Type
      ArpFrame(ARP_HTYPE, <<18, 52>>, ARP_HLEN, Len(GoodData), ARP_OPER,
               GoodData),
      \* not ARP
      [GoodFrame EXCEPT ![14] = 0],
      \* Hardware Type 6
      ArpFrame(<<0, 6>>, <<136, 181>>, ARP_HLEN, Len(GoodData), ARP_OPER,
               GoodData),
      \* Hardware Address Length 8
      ArpFrame(ARP_HTYPE, <<136, 181>>, 8, Len(GoodData), ARP_OPER, GoodData),
      \* Operation 2 (reply)
      ArpFrame(ARP_HTYPE, <<136, 181>>, ARP_HLEN, Len(GoodData), <<0, 2>>,
               GoodData),
      \* no magic: a real ARP request for an IPv4 address
      ArpFrame(ARP_HTYPE, <<8, 0>>, ARP_HLEN, 4, ARP_OPER, <<10, 0, 0, 1>>),
      \* magic "uwx"
      ArpFrame(ARP_HTYPE, <<136, 181>>, ARP_HLEN, Len(GoodData), ARP_OPER,
               <<117, 119, 120>> \o SliceFrom(GoodData, 3)),
      \* the magic and nothing else, the magic and a tag
      ArpFrame(ARP_HTYPE, <<136, 181>>, ARP_HLEN, 3, ARP_OPER, PACKET_PREFIX),
      ArpFrame(ARP_HTYPE, <<136, 181>>, ARP_HLEN, 4, ARP_OPER,
               PACKET_PREFIX \o <<3>>),
      \* fewer than 8 bytes after the total
      ArpFrame(ARP_HTYPE, <<136, 181>>, ARP_HLEN, 9, ARP_OPER,
               PACKET_PREFIX \o <<3, 0, 0, 1, 2, 3>>),
      \* shorter than an Ethernet header
      SubSeq(GoodFrame, 1, 10),
      \* an Ethernet header with EtherType ARP and no payload
      SubSeq(GoodFrame, 1, ETH_HEADER_LEN),
      \* an ARP header cut before the Operation field
      SubSeq(GoodFrame, 1, ETH_HEADER_LEN + 7),
      \* an ARP header and no addresses
      SubSeq(GoodFrame, 1, ETH_HEADER_LEN + 8),
      \* a Protocol Address Length beyond the end of the frame
      SubSeq(GoodFrame, 1, ETH_HEADER_LEN + 14 + 10) }

RecvInit ==
    /\ rpc = "run"
    /\ buffer = EmptyBuffer
    /\ recent = RingWithCapacity(RING_CAPACITY)
    /\ rres = NoPacket
    /\ rin = NoInput
    /\ flights = <<>>
    /\ flightsLeft = MaxFlights
    /\ advIds = {}
    /\ advLeft = 0
    /\ CodecOff
    /\ SendOff
    /\ WorkerOff

FuzzInit ==
    /\ rpc = "run"
    /\ buffer = EmptyBuffer
    /\ recent = RingWithCapacity(RING_CAPACITY)
    /\ rres = NoPacket
    /\ rin = NoInput
    /\ flights = <<>>
    /\ flightsLeft = FuzzFlights
    /\ advIds = {}
    /\ advLeft = MaxAdv
    /\ CodecOff
    /\ SendOff
    /\ WorkerOff

Alive == rpc = "run" /\ rres.kind # "Panic"

\* what try_recv read from rx, with what held of its PacketId before the call
Input(kind, frame) ==
    LET frag == ParseFrame(frame)
        isFrag == frag.kind = "Fragment"
    IN  [kind |-> kind, frame |-> frame, frag |-> frag,
         inRing |-> isFrag /\ RingContains(recent, frag.id),
         known |-> isFrag /\ frag.id \in DOMAIN buffer,
         len |-> IF isFrag /\ frag.id \in DOMAIN buffer
                 THEN Len(buffer[frag.id]) ELSE 0]

\* a peer calls send(p) and draws id; its frames are on the network
PeerSend(p, id) ==
    /\ Alive
    /\ flightsLeft > 0
    /\ id = FreshId
    /\ flights' = Append(flights, [pkt |-> p, id |-> id, got |-> {},
                                   again |-> {}, count |-> 0,
                                   out |-> NoPacket])
    /\ flightsLeft' = flightsLeft - 1
    /\ UNCHANGED <<rpc, buffer, recent, rres, rin, advIds, advLeft>>
    /\ UNCHANGED <<codecVars, sendVars, workerVars>>

\* try_recv() reads the k-th frame of the f-th packet sent.  The network
\* brings the frames of a packet in any order and any number of times; once
\* all were read, the repeats come in the order they were sent.
RecvPeerFrame(f, k) ==
    /\ Alive
    /\ f \in 1..Len(flights)
    /\ k \in FlightParts(f)
    /\ flights[f].got = FlightParts(f) =>
            \/ k \in flights[f].again
            \/ \A j \in 1..(k - 1) : j \in flights[f].again
    /\ LET frame == FlightFrames(f)[k]
           r == TryRecv(buffer, recent, frame)
           fl == flights[f]
           done == fl.got = FlightParts(f)
       IN  /\ buffer' = r.buffer
           /\ recent' = r.recent
           /\ rres' = r.res
           /\ rin' = [kind |-> "peer",
                       on |-> IF r.res.kind = "Some" THEN k ELSE 0]
           /\ flights' = [flights EXCEPT ![f] =
                [fl EXCEPT !.got = IF done THEN @ ELSE @ \cup {k},
                           !.again = IF done THEN @ \cup {k} ELSE @,
                           !.count = IF r.res.kind = "Some" THEN @ + 1 ELSE @,
                           !.out = IF r.res.kind = "Some" THEN r.res ELSE @]]
    /\ UNCHANGED <<rpc, flightsLeft, advIds, advLeft>>
    /\ UNCHANGED <<codecVars, sendVars, workerVars>>

\* try_recv() reads a fragment that no send() made
RecvFragment(g) ==
    /\ Alive
    /\ advLeft > 0
    /\ LET frame == FragmentFrame(g)
           r == TryRecv(buffer, recent, frame)
       IN  /\ buffer' = r.buffer
           /\ recent' = r.recent
           /\ rres' = r.res
           /\ rin' = Input("fragment", frame)
    /\ advIds' = advIds \cup {g.id}
    /\ advLeft' = advLeft - 1
    /\ UNCHANGED <<rpc, flights, flightsLeft>>
    /\ UNCHANGED <<codecVars, sendVars, workerVars>>

\* try_recv() reads some other frame
RecvRaw(frame) ==
    /\ Alive
    /\ advLeft > 0
    /\ LET r == TryRecv(buffer, recent, frame)
           frag == ParseFrame(frame)
       IN  /\ buffer' = r.buffer
           /\ recent' = r.recent
           /\ rres' = r.res
           /\ rin' = Input("raw", frame)
           /\ advIds' = IF frag.kind = "Fragment"
                        THEN advIds \cup {frag.id} ELSE advIds
    /\ advLeft' = advLeft - 1
    /\ UNCHANGED <<rpc, flights, flightsLeft>>
    /\ UNCHANGED <<codecVars, sendVars, workerVars>>

\* rx.next() fails: try_recv() returns Err(CaptureFailed)
RecvCaptureFailed ==
    /\ Alive
    /\ rres.kind # "Err"
    /\ rres' = [kind |-> "Err", err |-> "CaptureFailed"]
    /\ rin' = [kind |-> "error"]
    /\ UNCHANGED <<rpc, buffer, recent, flights, flightsLeft, advIds, advLeft>>
    /\ UNCHANGED <<codecVars, sendVars, workerVars>>

RecvNext ==
    \/ \E p \in RecvPackets, id \in Ids : PeerSend(p, id)
    \/ \E f \in 1..Len(flights) : \E k \in FlightParts(f) : RecvPeerFrame(f, k)
    \/ RecvCaptureFailed

SpecRecv == RecvInit /\ [][RecvNext]_vars

FuzzNext ==
    \/ \E p \in RecvPackets, id \in Ids : PeerSend(p, id)
    \/ \E f \in 1..Len(flights) : \E k \in FlightParts(f) : RecvPeerFrame(f, k)
    \/ \E g \in AdvFragments : RecvFragment(g)
    \/ \E frame \in RawFrames : RecvRaw(frame)
    \/ RecvCaptureFailed

SpecFuzz == FuzzInit /\ [][FuzzNext]_vars

----------------------------------------------------------------------------
(* Specification of the reassembly map: Channel::try_recv on one channel,  *)
(* fed the frames of packets that peers send() and two-part fragments of   *)
(* another program, whose bytes deserialize as a Presence and not as a     *)
(* Disconnect.                                                             *)

\* number of packets peers send
StoreFlights == 1

\* number of fragments that no send() made
StoreAdv == 2

StoreFragments ==
    { [tag |-> t, seq |-> q, total |-> 1, id |-> IdOf(1), inner |-> IdOf(2)] :
        t \in {2, 3}, q \in {0, 1} }

StoreInit ==
    /\ rpc = "run"
    /\ buffer = EmptyBuffer
    /\ recent = RingWithCapacity(RING_CAPACITY)
    /\ rres = NoPacket
    /\ rin = NoInput
    /\ flights = <<>>
    /\ flightsLeft = StoreFlights
    /\ advIds = {}
    /\ advLeft = StoreAdv
    /\ CodecOff
    /\ SendOff
    /\ WorkerOff

StoreNext ==
    \/ \E p \in RecvPackets, id \in Ids : PeerSend(p, id)
    \/ \E f \in 1..Len(flights) : \E k \in FlightParts(f) : RecvPeerFrame(f, k)
    \/ \E g \in StoreFragments : RecvFragment(g)

SpecStore == StoreInit /\ [][StoreNext]_vars

----------------------------------------------------------------------------
(* Specification of the reassembly map under fragments that no send()      *)
(* made: Channel::try_recv on one channel, fed two-part fragments of       *)
(* several PacketIds in any order; under the Presence tag the two parts    *)
(* deserialize, under the Disconnect tag they do not.                      *)

\* number of PacketIds of the fragments
FloodIds == 3

\* number of fragments read
FloodFrames == 5

FloodFragments ==
    { [tag |-> t, seq |-> q, total |-> 1, id |-> IdOf(n), inner |-> IdOf(2)] :
        t \in {2, 3}, q \in {0, 1}, n \in 1..FloodIds }

FloodInit ==
    /\ rpc = "run"
    /\ buffer = EmptyBuffer
    /\ recent = RingWithCapacity(RING_CAPACITY)
    /\ rres = NoPacket
    /\ rin = NoInput
    /\ flights = <<>>
    /\ flightsLeft = 0
    /\ advIds = {}
    /\ advLeft = FloodFrames
    /\ CodecOff
    /\ SendOff
    /\ WorkerOff

FloodNext == \E g \in FloodFragments : RecvFragment(g)

SpecFlood == FloodInit /\ [][FloodNext]_vars

----------------------------------------------------------------------------
(* Specification of the recency ring: Channel::try_recv on one channel,    *)
(* fed the one frame of one-part packets whose PacketIds are new, and      *)
(* again the frame of the packets sent first.  flights is the list of the  *)
(* PacketIds delivered, in the order of delivery.                          *)

\* number of packets with a new PacketId
RingPackets == 18

\* number of frames that are read once more
RingReplays == 2

\* the packets whose frame is read once more: the first ones sent
RingReplayed == {1, 2}

\* the PacketId of the n-th packet sent
RingId(n) == [i \in 1..ID_SIZE |-> IF i = 1 THEN n % 256 ELSE 7]

RingSendPackets == {PresenceReq, Disconnect(IdOf(2))}

\* the number of packets sent so far
RingSent == RingPackets - flightsLeft

RingInit ==
    /\ rpc = "run"
    /\ buffer = EmptyBuffer
    /\ recent = RingWithCapacity(RING_CAPACITY)
    /\ rres = NoPacket
    /\ rin = NoInput
    /\ flights = <<>>
    /\ flightsLeft = RingPackets
    /\ advIds = {}
    /\ advLeft = RingReplays
    /\ CodecOff
    /\ SendOff
    /\ WorkerOff

\* try_recv() reads the frame of send(p) with the PacketId id
RingRecv(p, id) ==
    LET frame == Send(PEER_MAC, EtherTypeDefault, p, id, 0).frames[1]
        r == TryRecv(buffer, recent, frame)
    IN  /\ buffer' = r.buffer
        /\ recent' = r.recent
        /\ rres' = r.res
        /\ rin' = [kind |-> "peer", id |-> id]
        /\ flights' = IF r.res.kind = "Some" THEN Append(flights, id)
                      ELSE flights

\* a peer sends a packet with a new PacketId, and the worker reads its frame
RingFresh(p) ==
    /\ Alive
    /\ flightsLeft > 0
    /\ RingRecv(p, RingId(RingSent + 1))
    /\ flightsLeft' = flightsLeft - 1
    /\ UNCHANGED <<rpc, advIds, advLeft>>
    /\ UNCHANGED <<codecVars, sendVars, workerVars>>

\* the network brings the frame of the n-th packet once more
RingAgain(p, n) ==
    /\ Alive
    /\ advLeft > 0
    /\ n <= RingSent
    /\ RingRecv(p, RingId(n))
    /\ advLeft' = advLeft - 1
    /\ UNCHANGED <<rpc, flightsLeft, advIds>>
    /\ UNCHANGED <<codecVars, sendVars, workerVars>>

RingNext ==
    \/ \E p \in RingSendPackets : RingFresh(p)
    \/ \E p \in RingSendPackets, n \in RingReplayed : RingAgain(p, n)

SpecRing == RingInit /\ [][RingNext]_vars

\* the network brings part q of a two-part Presence under the PacketId of
\* the n-th packet
RingPart(n, q) ==
    /\ Alive
    /\ advLeft > 0
    /\ n <= RingSent
    /\ LET frame == PartFrame(PEER_MAC, EtherTypeDefault, 2, q, 1, RingId(n),
                              IdOf(2))
           r == TryRecv(buffer, recent, frame)
       IN  /\ buffer' = r.buffer
           /\ recent' = r.recent
           /\ rres' = r.res
           /\ rin' = [kind |-> "part", id |-> RingId(n)]
           /\ flights' = IF r.res.kind = "Some"
                         THEN Append(flights, RingId(n)) ELSE flights
    /\ advLeft' = advLeft - 1
    /\ UNCHANGED <<rpc, flightsLeft, advIds>>
    /\ UNCHANGED <<codecVars, sendVars, workerVars>>

RingPartsNext ==
    \/ \E p \in RingSendPackets : RingFresh(p)
    \/ \E p \in RingSendPackets, n \in RingReplayed : RingAgain(p, n)
    \/ \E n \in RingReplayed, q \in {0, 1} : RingPart(n, q)

\* the recency ring and the reassembly map: the same, where the PacketIds
\* of the packets sent first also come back on the parts of two-part packets
SpecRingParts == RingInit /\ [][RingPartsNext]_vars

----------------------------------------------------------------------------
(* The network worker: start_net_thread.  One iteration of its loop is the *)
(* steps WCommand, WReceive, WHeartbeat, in this order, once WOpen has     *)
(* opened the channel.  net_thread.rs is written against a two-field       *)
(* Packet::Message(id, msg), id being the author, and has no arm for       *)
(* Packet::Reaction: WorkerMessage is that Message as a Message of net.rs, *)
(* and no Reaction is fed to the worker.                                   *)

HEARTBEAT_INTERVAL == 3

INACTIVE_TIMEOUT == 6

OFFLINE_TIMEOUT == 12

\* local_id, and the PeerId of another instance
LOCAL_ID == IdOf(1)

PEER_ID == IdOf(2)

WorkerMessage(id, msg) == Message(id, id, <<>>, msg)

\* str::contains
Contains(s, pat) ==
    \E i \in 0..(Len(s) - Len(pat)) : SubSeq(s, i + 1, i + Len(pat)) = pat

\* UICommand, the variants the worker puts on tx
AlertUser == [ev |-> "AlertUser"]

\* the event with the fallback username, whatever the roster holds
NewMessageUnknown(id, username, msg, own) ==
    [ev |-> "NewMessage", id |-> id,
     username |-> <<117, 110, 107, 110, 111, 119, 110>>, msg |-> msg,
     own |-> own]

NewMessage(id, username, msg, own) ==
    [ev |-> "NewMessage", id |-> id, username |-> username, msg |-> msg,
     own |-> own]

UsernameChange(former) == [kind |-> "UsernameChange", former |-> former]

JoinOrReconnect == [kind |-> "JoinOrReconnect"]

Boring == [kind |-> "Boring"]

PresenceUpdate(id, username, inactive, kind) ==
    [ev |-> "PresenceUpdate", id |-> id, username |-> username,
     inactive |-> inactive, kind |-> kind]

RemovePresence(id, username) ==
    [ev |-> "RemovePresence", id |-> id, username |-> username]

Error(err) == [ev |-> "Error", err |-> err]

\* NetCommand, and the Err of rx.try_recv() on an empty queue
SetInterface(name) == [cmd |-> "SetInterface", name |-> name]

SetEtherType(e) == [cmd |-> "SetEtherType", ether_type |-> e]

SendMessage(msg) == [cmd |-> "SendMessage", msg |-> msg]

UpdateUsername(new_username) ==
    [cmd |-> "UpdateUsername", new_username |-> new_username]

Terminate == [cmd |-> "Terminate"]

PauseHeartbeat(pause) == [cmd |-> "PauseHeartbeat", pause |-> pause]

NoCommand == [cmd |-> "none"]

\* the names of sorted_usable_interfaces()
Interfaces == {"eth0"}

\* the UTF-8 of "al", "hi", "hi al", "bob", "rob"
NameAl == <<97, 108>>

TextHi == <<104, 105>>

TextHiAl == <<104, 105, 32, 97, 108>>

NameBob == <<98, 111, 98>>

NameRob == <<114, 111, 98>>

\* the commands the UI sends
UiCommands ==
    { SetInterface("eth0"), SetInterface("nope"), SetEtherType("IPv4"),
      SendMessage(TextHi), UpdateUsername(NameAl), Terminate,
      PauseHeartbeat(TRUE), PauseHeartbeat(FALSE) }

\* the values of CONFIG.ether_type
ConfigEtherTypes == {"None", "Experimental2"}

\* the results of Channel::from_interface
OpenResults == {"Ok", "ChannelError"}

\* the result of channel.send(packet) where tx.send_to fails (fail) or not
ChannelSend(packet, fail) ==
    [pkt |-> packet,
     res |-> Send(LOCAL_MAC, ether_type, packet, LOCAL_ID,
                  IF fail THEN 1 ELSE 0).res]

\* the loop body ends on an error without a word to the UI
LoopEndSilent(evs, err, brk, next) ==
    /\ events' = evs
    /\ wpc' = IF err # "none" \/ brk THEN "exited" ELSE next

\* the loop goes on after an error that it has told the UI
LoopEndContinue(evs, err, brk, next) ==
    /\ events' = IF err # "none" THEN Append(evs, Error(err)) ELSE evs
    /\ wpc' = IF brk THEN "exited" ELSE next

\* the end of the loop body: Error(err) to the UI and break on an error,
\* break on Terminate, else on to the next part of the body
LoopEnd(evs, err, brk, next) ==
    /\ events' = IF err # "none" THEN Append(evs, Error(err)) ELSE evs
    /\ wpc' = IF err # "none" \/ brk THEN "exited" ELSE next

SendErr(s) == IF s.res = "Ok" THEN "none" ELSE s.res

\* the result of the send is passed on like that of any other send
NotDropped(s) == SendErr(s)

\* let _ = channel.send(..): the result of the send is dropped
Dropped(s) == "none"

\* no frame is handed to tx while heartbeats are paused
RECURSIVE SentFramesUnpaused(_)
SentFramesUnpaused(s) ==
    IF s = <<>> \/ pause_heartbeat THEN <<>>
    ELSE Send(LOCAL_MAC, ether_type, Head(s).pkt, LOCAL_ID,
              IF Head(s).res = "Ok" THEN 0 ELSE 1).frames
            \o SentFramesUnpaused(Tail(s))

\* the frames the calls of channel.send() of one step have handed to tx
RECURSIVE SentFrames(_)
SentFrames(s) ==
    IF s = <<>> THEN <<>>
    ELSE Send(LOCAL_MAC, ether_type, Head(s).pkt, LOCAL_ID,
              IF Head(s).res = "Ok" THEN 0 ELSE 1).frames
            \o SentFrames(Tail(s))

\* number of frames the worker reads from the link that returns its frames
LoopFrames == 5

\* the link returns the worker's own broadcasts to its adapter
Loopback == rpc = "loopback"

\* let id: Id = rand::thread_rng().gen() of send(): the PacketId of the
\* packet sent when n frames went on the link before, one not drawn before
LinkId(n) == RingId(n)

\* the frames in flight on the link after the calls of channel.send() of one
\* step: q the frames in flight before, n the frames sent before
RECURSIVE LinkSend(_, _, _)
LinkSend(q, n, s) ==
    IF s = <<>> THEN q
    ELSE LET frames == Send(LOCAL_MAC, ether_type, Head(s).pkt, LinkId(n),
                            IF Head(s).res = "Ok" THEN 0 ELSE 1).frames
         IN  LinkSend(q \o frames, n + Len(frames) + 1, Tail(s))

\* the frames in flight after a step that read the first of them or none
\* and made these calls of channel.send()
Link(read, s) ==
    IF Loopback
    THEN LinkSend(IF read THEN Tail(flights) ELSE flights,
                  (LoopFrames - flightsLeft) + Len(flights), s)
    ELSE flights

\* the variables of the receiving-side specifications that the worker's
\* channel does not have
NoFlights ==
    /\ rpc = "off"
    /\ rin = NoInput
    /\ flights = <<>>
    /\ advIds = {}
    /\ advLeft = 0

\* number of commands the UI sends
MaxCmds == 2

\* number of frames the worker reads from the network
WorkerFrames == 1

\* the last second of the clock
MaxTime == 4

\* the worker after the locals of start_net_thread are made, when the UI has
\* ncmds commands to send and the network nframes frames
WorkerStart(ncmds, nframes) ==
    /\ wpc = "open"
    /\ channel = "none"
    /\ state = "NeedsUsername"
    /\ local_username = <<>>
    /\ pause_heartbeat = FALSE
    /\ last_heartbeat = 0
    /\ online = NoPeers
    /\ offline = {}
    /\ cmds = <<>>
    /\ cmdsLeft = ncmds
    /\ now = 0
    /\ events = <<>>
    /\ sent = <<>>
    /\ updates = 0
    /\ upc = "running"
    /\ buffer = EmptyBuffer
    /\ recent = RingWithCapacity(RING_CAPACITY)
    /\ rres = NoPacket
    /\ flightsLeft = nframes
    /\ NoFlights
    /\ CodecOff
    /\ SendOff

WorkerInit == WorkerStart(MaxCmds, WorkerFrames)

\* the UI puts a command on the queue, before a step of the worker that
\* takes one and when the worker has taken the one before
UiSend(c) ==
    /\ upc = "running"
    /\ wpc \in {"open", "cmd"}
    /\ cmdsLeft > 0
    /\ cmds = <<>>
    /\ cmds' = Append(cmds, c)
    /\ cmdsLeft' = cmdsLeft - 1
    /\ UNCHANGED <<wpc, channel, state, local_username, pause_heartbeat,
                   last_heartbeat, online, offline, now, events, sent,
                   updates, upc>>
    /\ UNCHANGED <<codecVars, sendVars, recvVars>>

\* a second passes, before a step of the worker that reads the clock, up
\* to the second limit
TickTo(limit) ==
    /\ wpc \in {"recv", "beat"}
    /\ now < limit
    /\ now' = now + 1
    /\ UNCHANGED <<wpc, channel, state, local_username, pause_heartbeat,
                   last_heartbeat, online, offline, cmds, cmdsLeft, events,
                   sent, updates, upc>>
    /\ UNCHANGED <<codecVars, sendVars, recvVars>>

Tick == TickTo(MaxTime)

\* rx.try_recv(): the command taken, and the queue left
TakeCommand == IF cmds = <<>> THEN NoCommand ELSE Head(cmds)

RestCommands == IF cmds = <<>> THEN cmds ELSE Tail(cmds)

\* the loop body goes on to the command match without a channel
FallThrough ==
    /\ events' = <<>>
    /\ wpc' = "cmd"

\* continue: the next iteration starts, and nothing is said to the UI
Continue ==
    /\ events' = <<>>
    /\ wpc' = wpc

\* the loop body while no channel is open: cfg is CONFIG.ether_type, opened
\* the result of Channel::from_interface
WOpen(cfg, opened) ==
    /\ wpc = "open"
    /\ channel = "none"
    /\ cmds' = RestCommands
    /\ sent' = <<>>
    /\ LET c == TakeCommand
       IN  IF c.cmd # "SetInterface"
           THEN /\ Continue
                /\ UNCHANGED <<channel, ether_type, sin, buffer, recent>>
           ELSE IF c.name \notin Interfaces
           THEN /\ LoopEnd(<<>>, "InvalidInterface", FALSE, "cmd")
                /\ UNCHANGED <<channel, ether_type, sin, buffer, recent>>
           ELSE IF opened # "Ok"
           THEN /\ LoopEnd(<<>>, opened, FALSE, "cmd")
                /\ UNCHANGED <<channel, ether_type, sin, buffer, recent>>
           ELSE /\ channel' = "some"
                /\ sin' = [kind |-> "config", ether_type |-> cfg]
                /\ ether_type' = IF cfg = "None" THEN EtherTypeDefault ELSE cfg
                /\ buffer' = EmptyBuffer
                /\ recent' = RingWithCapacity(RING_CAPACITY)
                /\ LoopEnd(<<>>, "none", FALSE, "cmd")
    /\ UNCHANGED <<state, local_username, pause_heartbeat, last_heartbeat,
                   online, offline, cmdsLeft, now, updates>>
    /\ wire' = SentFrames(sent')
    /\ UNCHANGED <<spc, sres, rpc, rres, rin, flights, flightsLeft, advIds,
                   advLeft>>
    /\ UNCHANGED <<codecVars, upc>>

\* match rx.try_recv() on the open channel; fail: tx.send_to fails
WCommand(fail) ==
    /\ wpc = "cmd"
    /\ channel = "some"
    /\ cmds' = RestCommands
    /\ LET c == TakeCommand
       IN  CASE c.cmd = "none" ->
                /\ sent' = <<>>
                /\ LoopEnd(<<>>, "none", FALSE, "recv")
                /\ UNCHANGED <<ether_type, local_username, state,
                               pause_heartbeat, updates>>
             [] c.cmd = "SetInterface" ->
                /\ sent' = <<>>
                /\ LoopEnd(<<>>, "InterfaceAlreadySet", FALSE, "recv")
                /\ UNCHANGED <<ether_type, local_username, state,
                               pause_heartbeat, updates>>
             [] c.cmd = "SetEtherType" ->
                /\ ether_type' = c.ether_type
                /\ sent' = <<>>
                /\ LoopEnd(<<>>, "none", FALSE, "recv")
                /\ UNCHANGED <<local_username, state, pause_heartbeat,
                               updates>>
             [] c.cmd = "SendMessage" ->
                LET s == ChannelSend(WorkerMessage(LOCAL_ID, c.msg), fail)
                IN  /\ sent' = <<s>>
                    /\ LoopEnd(<<NewMessage(LOCAL_ID, local_username, c.msg,
                                            TRUE)>>,
                               SendErr(s), FALSE, "recv")
                    /\ UNCHANGED <<ether_type, local_username, state,
                                   pause_heartbeat, updates>>
             [] c.cmd = "UpdateUsername" ->
                /\ local_username' = c.new_username
                /\ updates' = Min(updates + 1, 2)
                /\ IF state = "NeedsUsername"
                   THEN LET s == ChannelSend(PresenceReq, fail)
                        IN  /\ sent' = <<s>>
                            /\ state' = IF s.res = "Ok"
                                        THEN "NeedsInitialPresence" ELSE state
                            /\ LoopEnd(<<>>, SendErr(s), FALSE, "recv")
                   ELSE /\ sent' = <<>>
                        /\ state' = state
                        /\ LoopEnd(<<>>, "none", FALSE, "recv")
                /\ UNCHANGED <<ether_type, pause_heartbeat>>
             [] c.cmd = "Terminate" ->
                LET s == ChannelSend(Disconnect(LOCAL_ID), fail)
                IN  /\ sent' = <<s>>
                    /\ LoopEnd(<<>>, Dropped(s), TRUE, "recv")
                    /\ UNCHANGED <<ether_type, local_username, state,
                                   pause_heartbeat, updates>>
             [] c.cmd = "PauseHeartbeat" ->
                /\ pause_heartbeat' = c.pause
                /\ sent' = <<>>
                /\ LoopEnd(<<>>, "none", FALSE, "recv")
                /\ UNCHANGED <<ether_type, local_username, state, updates>>
    /\ wire' = SentFrames(sent')
    /\ flights' = Link(FALSE, sent')
    /\ UNCHANGED <<channel, last_heartbeat, online, offline, cmdsLeft, now>>
    /\ UNCHANGED <<spc, sin, sres>>
    /\ UNCHANGED <<rpc, buffer, recent, rres, rin, flightsLeft, advIds,
                   advLeft>>
    /\ UNCHANGED <<codecVars, upc>>

\* the packets that arrive from the network: a peer's, and those that carry
\* local_id, as the worker's own broadcasts do when the link returns them
InPackets ==
    { PresenceReq,
      Presence(LOCAL_ID, FALSE, <<>>), Presence(LOCAL_ID, TRUE, NameAl),
      Presence(PEER_ID, TRUE, NameBob), Presence(PEER_ID, FALSE, NameRob),
      Disconnect(PEER_ID),
      WorkerMessage(PEER_ID, TextHiAl) }

\* the PacketId of the frame that arrives when n frames are still to come
InId(n) == IdOf(n)

\* the frames rx.next() yields: the one frame of send(p) of a peer, an ARP
\* request of another host, and an ARP frame cut after its Ethernet header
InFramesOf(n) ==
    { Send(PEER_MAC, EtherTypeDefault, p, InId(n), 0).frames[1] :
        p \in InPackets }
    \cup { ArpFrame(ARP_HTYPE, <<8, 0>>, ARP_HLEN, 4, ARP_OPER,
                    <<10, 0, 0, 1>>),
           MAC_BROADCAST \o PEER_MAC \o ETHERTYPE_ARP }

InFrames == [n \in 0..WorkerFrames |-> InFramesOf(n)]

\* HashMap::insert and HashMap::remove on the roster
OnlineInsert(map, id, at, username) ==
    [x \in DOMAIN map \cup {id} |->
        IF x = id THEN [at |-> at, username |-> username] ELSE map[x]]

\* the roster is left as it is
OnlineKept(map, ids) == map

OnlineRemove(map, ids) == [x \in DOMAIN map \ ids |-> map[x]]

\* is_join of the answer to a PresenceReq, were it true before Ready
IsJoinBeforeReady == state # "Ready"

\* the state is left as it is when the worker's own Presence arrives
AfterPresenceKeep(pres_id) == state

\* if pres_id == local_id { state = NetThreadState::Ready; }
AfterPresence(pres_id) == IF pres_id = LOCAL_ID THEN "Ready" ELSE state

\* is_join of the answer to a PresenceReq
IsJoin == state = "NeedsInitialPresence"

\* match channel.try_recv()?: captured is FALSE when rx.next() fails, frame
\* is the frame it yields otherwise; fail: tx.send_to fails
WReceive(captured, frame, fail) ==
    /\ wpc = "recv"
    /\ channel = "some"
    /\ flightsLeft > 0
    /\ flightsLeft' = flightsLeft - 1
    /\ IF ~captured
       THEN /\ rres' = [kind |-> "Err", err |-> "CaptureFailed"]
            /\ sent' = <<>>
            /\ LoopEnd(<<>>, rres'.err, FALSE, "beat")
            /\ UNCHANGED <<buffer, recent, state, online, offline>>
       ELSE
       LET r == TryRecv(buffer, recent, frame)
           p == r.res.pkt
       IN  /\ buffer' = r.buffer
           /\ recent' = r.recent
           /\ rres' = r.res
           /\ CASE r.res.kind = "Panic" ->
                   /\ wpc' = "panicked"
                   /\ events' = <<>>
                   /\ sent' = <<>>
                   /\ UNCHANGED <<state, online, offline>>
                [] r.res.kind = "None" ->
                   /\ sent' = <<>>
                   /\ LoopEnd(<<>>, "none", FALSE, "beat")
                   /\ UNCHANGED <<state, online, offline>>
                [] r.res.kind = "Some" /\ p.type = "Message" ->
                   LET id == p.author
                       msg == p.message
                       username == IF id \in DOMAIN online
                                   THEN online[id].username
                                   ELSE <<117, 110, 107, 110, 111, 119, 110>>
                       alert == IF id # LOCAL_ID /\ Contains(msg, local_username)
                                THEN <<AlertUser>> ELSE <<>>
                   IN  /\ sent' = <<>>
                       /\ LoopEnd(Append(alert,
                                         NewMessage(id, username, msg, FALSE)),
                                  "none", FALSE, "beat")
                       /\ UNCHANGED <<state, online, offline>>
                [] r.res.kind = "Some" /\ p.type = "PresenceReq" ->
                   LET s == ChannelSend(
                                Presence(LOCAL_ID, IsJoin, local_username),
                                fail)
                   IN  /\ sent' = <<s>>
                       /\ LoopEnd(<<>>, SendErr(s), FALSE, "beat")
                       /\ UNCHANGED <<state, online, offline>>
                [] r.res.kind = "Some" /\ p.type = "Presence" ->
                   LET known == p.id \in DOMAIN online
                       kind == IF known
                               THEN UsernameChange(online[p.id].username)
                               ELSE IF LOCAL_ID \in offline \/ p.is_join
                               THEN JoinOrReconnect
                               ELSE Boring
                   IN  /\ online' = OnlineInsert(online, p.id, now, p.name)
                       /\ offline' = IF known THEN offline
                                     ELSE offline \ {LOCAL_ID}
                       /\ state' = AfterPresence(p.id)
                       /\ sent' = <<>>
                       /\ LoopEnd(<<PresenceUpdate(p.id, p.name, FALSE, kind)>>,
                                  "none", FALSE, "beat")
                [] r.res.kind = "Some" /\ p.type = "Disconnect" ->
                   /\ online' = OnlineRemove(online, {p.id})
                   /\ sent' = <<>>
                   /\ LoopEnd(IF p.id \in DOMAIN online
                              THEN <<RemovePresence(p.id,
                                                    online[p.id].username)>>
                              ELSE <<>>,
                              "none", FALSE, "beat")
                   /\ UNCHANGED <<state, offline>>
    /\ UNCHANGED <<channel, local_username, pause_heartbeat, last_heartbeat,
                   cmds, cmdsLeft, now, updates>>
    /\ wire' = SentFrames(sent')
    /\ flights' = Link(captured, sent')
    /\ UNCHANGED <<spc, ether_type, sin, sres, rpc, rin, advIds, advLeft>>
    /\ UNCHANGED <<codecVars, upc>>

\* the orders in which online.iter() can yield the roster
IterOrders(map) ==
    { o \in [1..Cardinality(DOMAIN map) -> DOMAIN map] :
        \A i, j \in DOMAIN o : i # j => o[i] # o[j] }

\* the scan reports every silent entry inactive and none removed
ScanEventInactive(id) ==
    IF now - online[id].at > INACTIVE_TIMEOUT
    THEN <<PresenceUpdate(id, online[id].username, TRUE, Boring)>>
    ELSE <<>>

\* the scan reports nothing while heartbeats are paused
ScanEventUnpaused(id) ==
    IF pause_heartbeat THEN <<>>
    ELSE IF now - online[id].at > OFFLINE_TIMEOUT
    THEN <<RemovePresence(id, online[id].username)>>
    ELSE IF now - online[id].at > INACTIVE_TIMEOUT
    THEN <<PresenceUpdate(id, online[id].username, TRUE, Boring)>>
    ELSE <<>>

\* what the timeout scan emits for one roster entry
ScanEvent(id) ==
    IF now - online[id].at > OFFLINE_TIMEOUT
    THEN <<RemovePresence(id, online[id].username)>>
    ELSE IF now - online[id].at > INACTIVE_TIMEOUT
    THEN <<PresenceUpdate(id, online[id].username, TRUE, Boring)>>
    ELSE <<>>

RECURSIVE ScanEvents(_, _)
ScanEvents(order, i) ==
    IF i > Len(order) THEN <<>>
    ELSE ScanEvent(order[i]) \o ScanEvents(order, i + 1)

\* a heartbeat is due in every iteration once the worker is Ready
HeartbeatDueAlways == state = "Ready"

\* a heartbeat is due whatever the state of the worker is
HeartbeatDueAnyState == now - last_heartbeat > HEARTBEAT_INTERVAL

\* the condition of the heartbeat
HeartbeatDue ==
    now - last_heartbeat > HEARTBEAT_INTERVAL /\ state = "Ready"

\* the heartbeat is sent although heartbeats are paused
HeartbeatSendsAlways == TRUE

\* if !pause_heartbeat
HeartbeatSends == ~pause_heartbeat

\* the heartbeat at the end of the loop body; order: the order of
\* online.iter(); fail: tx.send_to fails
WHeartbeat(order, fail) ==
    /\ wpc = "beat"
    /\ channel = "some"
    /\ order \in IterOrders(online)
    /\ IF HeartbeatDue
       THEN LET s == ChannelSend(Presence(LOCAL_ID, FALSE, local_username),
                                 fail)
                failed == HeartbeatSends /\ s.res # "Ok"
                to_remove == {id \in DOMAIN online :
                                now - online[id].at > OFFLINE_TIMEOUT}
            IN  /\ sent' = IF HeartbeatSends THEN <<s>> ELSE <<>>
                /\ IF failed
                   THEN /\ LoopEnd(<<>>, s.res, FALSE, "cmd")
                        /\ UNCHANGED <<online, offline, last_heartbeat>>
                   ELSE /\ offline' = offline \cup to_remove
                        /\ online' = OnlineRemove(online, to_remove)
                        /\ last_heartbeat' = now
                        /\ LoopEnd(ScanEvents(order, 1), "none", FALSE, "cmd")
       ELSE /\ sent' = <<>>
            /\ LoopEnd(<<>>, "none", FALSE, "cmd")
            /\ UNCHANGED <<online, offline, last_heartbeat>>
    /\ wire' = SentFrames(sent')
    /\ flights' = Link(FALSE, sent')
    /\ UNCHANGED <<channel, state, local_username, pause_heartbeat, cmds,
                   cmdsLeft, now, updates>>
    /\ UNCHANGED <<spc, ether_type, sin, sres>>
    /\ UNCHANGED <<rpc, buffer, recent, rres, rin, flightsLeft, advIds,
                   advLeft>>
    /\ UNCHANGED <<codecVars, upc>>

WorkerNext ==
    \/ \E c \in UiCommands : UiSend(c)
    \/ Tick
    \/ \E cfg \in ConfigEtherTypes, opened \in OpenResults : WOpen(cfg, opened)
    \/ \E fail \in BOOLEAN : WCommand(fail)
    \/ \E captured \in BOOLEAN, frame \in InFrames[flightsLeft],
          fail \in BOOLEAN :
            WReceive(captured, frame, fail)
    \/ \E order \in IterOrders(online), fail \in BOOLEAN :
            WHeartbeat(order, fail)

SpecWorker == WorkerInit /\ [][WorkerNext]_vars

\* a step of the worker thread
WorkerRuns ==
    \/ \E cfg \in ConfigEtherTypes, opened \in OpenResults : WOpen(cfg, opened)
    \/ \E fail \in BOOLEAN : WCommand(fail)
    \/ \E captured \in BOOLEAN, frame \in InFrames[flightsLeft],
          fail \in BOOLEAN :
            WReceive(captured, frame, fail)
    \/ \E order \in IterOrders(online), fail \in BOOLEAN :
            WHeartbeat(order, fail)

\* the worker thread is scheduled again and again, and rx.next() returns as
\* long as the network has a frame
SpecWorkerFair == SpecWorker /\ WF_vars(WorkerRuns)

----------------------------------------------------------------------------
(* The worker and its roster: the same loop over a longer time, where the  *)
(* UI sends each of SetInterface and UpdateUsername at most once, the      *)
(* frames read are Presence and Disconnect packets, and the adapter does   *)
(* not fail.                                                               *)

\* number of frames the worker reads from the network
RosterFrames == 3

\* the last second of the clock
RosterTime == 13

RosterCommands == {SetInterface("eth0"), UpdateUsername(NameAl)}

RosterPackets ==
    { Presence(LOCAL_ID, TRUE, NameAl),
      Presence(PEER_ID, FALSE, NameBob), Presence(PEER_ID, FALSE, NameRob),
      Disconnect(PEER_ID) }

RosterInFrames ==
    [n \in 0..RosterFrames |->
        { Send(PEER_MAC, EtherTypeDefault, p, InId(n), 0).frames[1] :
            p \in RosterPackets }]

RosterInit == WorkerStart(Cardinality(RosterCommands), RosterFrames)

\* the UI sends a command it has not sent yet
RosterUiSend(c) ==
    /\ cmdsLeft = Cardinality(RosterCommands) => c.cmd = "SetInterface"
    /\ cmdsLeft < Cardinality(RosterCommands) => c.cmd = "UpdateUsername"
    /\ UiSend(c)

RosterNext ==
    \/ \E c \in RosterCommands : RosterUiSend(c)
    \/ TickTo(RosterTime)
    \/ WOpen("None", "Ok")
    \/ WCommand(FALSE)
    \/ \E frame \in RosterInFrames[flightsLeft] : WReceive(TRUE, frame, FALSE)
    \/ \E order \in IterOrders(online) : WHeartbeat(order, FALSE)

SpecRoster == RosterInit /\ [][RosterNext]_vars

----------------------------------------------------------------------------
(* The worker with paused heartbeats over the time of the timeouts: the    *)
(* same loop where the UI sends SetInterface and then PauseHeartbeat(true) *)
(* or nothing more, the frames read are Presence and Disconnect packets,   *)
(* time runs beyond OFFLINE_TIMEOUT and the adapter does not fail.         *)

\* number of frames the worker reads from the network
PausedFrames == 2

\* the last second of the clock
PausedTime == 13

PausedCommands == {SetInterface("eth0"), PauseHeartbeat(TRUE)}

PausedPackets ==
    { Presence(LOCAL_ID, TRUE, NameAl), Presence(PEER_ID, FALSE, NameBob),
      Disconnect(PEER_ID) }

PausedInFrames ==
    [n \in 0..PausedFrames |->
        { Send(PEER_MAC, EtherTypeDefault, p, InId(n), 0).frames[1] :
            p \in PausedPackets }]

PausedInit == WorkerStart(Cardinality(PausedCommands), PausedFrames)

\* the UI sends SetInterface first and PauseHeartbeat after it
PausedUiSend(c) ==
    /\ cmdsLeft = Cardinality(PausedCommands) <=> c.cmd = "SetInterface"
    /\ UiSend(c)

PausedNext ==
    \/ \E c \in PausedCommands : PausedUiSend(c)
    \/ TickTo(PausedTime)
    \/ WOpen("None", "Ok")
    \/ WCommand(FALSE)
    \/ \E frame \in PausedInFrames[flightsLeft] : WReceive(TRUE, frame, FALSE)
    \/ \E order \in IterOrders(online) : WHeartbeat(order, FALSE)

SpecPaused == PausedInit /\ [][PausedNext]_vars

----------------------------------------------------------------------------
(* The worker and the PresenceReq packets of its peers: the same loop      *)
(* where the UI sends SetInterface and then UpdateUsername and             *)
(* PauseHeartbeat commands, the frames read are PresenceReq packets and    *)
(* the worker's own Presence, and the adapter does not fail.               *)

\* number of commands the UI sends
ReplyCmds == 3

\* number of frames the worker reads from the network
ReplyFrames == 2

ReplyCommands ==
    { SetInterface("eth0"), UpdateUsername(NameAl), PauseHeartbeat(TRUE),
      PauseHeartbeat(FALSE) }

ReplyPackets == {PresenceReq, Presence(LOCAL_ID, TRUE, NameAl)}

ReplyInFrames ==
    [n \in 0..ReplyFrames |->
        { Send(PEER_MAC, EtherTypeDefault, p, InId(n), 0).frames[1] :
            p \in ReplyPackets }]

ReplyInit == WorkerStart(ReplyCmds, ReplyFrames)

\* the UI sends SetInterface first and the other commands after it
ReplyUiSend(c) ==
    /\ cmdsLeft = ReplyCmds <=> c.cmd = "SetInterface"
    /\ UiSend(c)

ReplyNext ==
    \/ \E c \in ReplyCommands : ReplyUiSend(c)
    \/ WOpen("None", "Ok")
    \/ WCommand(FALSE)
    \/ \E frame \in ReplyInFrames[flightsLeft] : WReceive(TRUE, frame, FALSE)
    \/ \E order \in IterOrders(online) : WHeartbeat(order, FALSE)

SpecReply == ReplyInit /\ [][ReplyNext]_vars

----------------------------------------------------------------------------
(* The worker in its steady state: the same loop where the UI sends        *)
(* SetInterface and then PauseHeartbeat commands, the frames read are      *)
(* Presence and Message packets, time runs over two heartbeat intervals    *)
(* and the adapter does not fail.                                          *)

\* number of commands the UI sends
SteadyCmds == 3

\* number of frames the worker reads from the network
SteadyFrames == 2

\* the last second of the clock
SteadyTime == 8

SteadyCommands ==
    {SetInterface("eth0"), PauseHeartbeat(TRUE), PauseHeartbeat(FALSE)}

SteadyPackets ==
    { Presence(LOCAL_ID, TRUE, NameAl), Presence(PEER_ID, FALSE, NameBob),
      WorkerMessage(PEER_ID, TextHiAl), WorkerMessage(LOCAL_ID, TextHi) }

SteadyInFrames ==
    [n \in 0..SteadyFrames |->
        { Send(PEER_MAC, EtherTypeDefault, p, InId(n), 0).frames[1] :
            p \in SteadyPackets }]

SteadyInit == WorkerStart(SteadyCmds, SteadyFrames)

\* the UI sends SetInterface first and PauseHeartbeat commands after it
SteadyUiSend(c) ==
    /\ cmdsLeft = SteadyCmds <=> c.cmd = "SetInterface"
    /\ UiSend(c)

SteadyNext ==
    \/ \E c \in SteadyCommands : SteadyUiSend(c)
    \/ TickTo(SteadyTime)
    \/ WOpen("None", "Ok")
    \/ WCommand(FALSE)
    \/ \E frame \in SteadyInFrames[flightsLeft] : WReceive(TRUE, frame, FALSE)
    \/ \E order \in IterOrders(online) : WHeartbeat(order, FALSE)

SpecSteady == SteadyInit /\ [][SteadyNext]_vars

----------------------------------------------------------------------------
(* The worker on a link that returns its own broadcasts: the same loop     *)
(* where every frame the worker sends comes back to its adapter, in order  *)
(* and without loss, a peer's Presence joins them, the UI sends            *)
(* SetInterface and then UpdateUsername, SendMessage and PauseHeartbeat     *)
(* commands, and the adapter does not fail.                                *)

\* number of commands the UI sends
LoopCmds == 3

\* number of frames peers send
LoopPeers == 1

\* the last second of the clock
LoopTime == 4

LoopCommands ==
    { SetInterface("eth0"), UpdateUsername(NameAl), UpdateUsername(NameBob),
      SendMessage(TextHi), PauseHeartbeat(TRUE) }

LoopInit ==
    /\ wpc = "open"
    /\ channel = "none"
    /\ state = "NeedsUsername"
    /\ local_username = <<>>
    /\ pause_heartbeat = FALSE
    /\ last_heartbeat = 0
    /\ online = NoPeers
    /\ offline = {}
    /\ cmds = <<>>
    /\ cmdsLeft = LoopCmds
    /\ now = 0
    /\ events = <<>>
    /\ sent = <<>>
    /\ updates = 0
    /\ upc = "running"
    /\ buffer = EmptyBuffer
    /\ recent = RingWithCapacity(RING_CAPACITY)
    /\ rres = NoPacket
    /\ flightsLeft = LoopFrames
    /\ rpc = "loopback"
    /\ rin = NoInput
    /\ flights = <<>>
    /\ advIds = {}
    /\ advLeft = LoopPeers
    /\ CodecOff
    /\ SendOff

\* the UI sends SetInterface first and the other commands after it
LoopUiSend(c) ==
    /\ cmdsLeft = LoopCmds <=> c.cmd = "SetInterface"
    /\ UiSend(c)

\* a peer broadcasts its Presence: its frame joins those in flight
LoopPeerSend ==
    /\ advLeft > 0
    /\ advLeft' = advLeft - 1
    /\ flights' = flights \o Send(PEER_MAC, EtherTypeDefault,
                                  Presence(PEER_ID, FALSE, NameBob),
                                  IdOf(advLeft), 0).frames
    /\ UNCHANGED <<rpc, buffer, recent, rres, rin, flightsLeft, advIds>>
    /\ UNCHANGED <<codecVars, sendVars, workerVars>>

\* rx.next() yields the frame that has been longest on the link
LoopReceive ==
    /\ flights # <<>>
    /\ WReceive(TRUE, Head(flights), FALSE)

\* a step of the worker thread
LoopRuns ==
    \/ WOpen("None", "Ok")
    \/ WCommand(FALSE)
    \/ LoopReceive
    \/ \E order \in IterOrders(online) : WHeartbeat(order, FALSE)

LoopNext ==
    \/ \E c \in LoopCommands : LoopUiSend(c)
    \/ TickTo(LoopTime)
    \/ LoopPeerSend
    \/ WOpen("None", "Ok")
    \/ WCommand(FALSE)
    \/ LoopReceive
    \/ \E order \in IterOrders(online) : WHeartbeat(order, FALSE)

SpecLoop == LoopInit /\ [][LoopNext]_vars

\* the worker thread can take a step: it is in its loop and, where it waits
\* in rx.next(), a frame is in flight
LoopCanRun ==
    \/ wpc = "open" /\ cmds # <<>>
    \/ wpc \in {"cmd", "beat"}
    \/ wpc = "recv" /\ flights # <<>> /\ flightsLeft > 0

\* weak fairness of the worker's steps, WF_vars(LoopRuns), with LoopCanRun
\* for ENABLED <<LoopRuns>>_vars: the worker thread is scheduled again and
\* again, and rx.next() returns as long as a frame is in flight
LoopFairness == []<>(~LoopCanRun) \/ []<><<LoopRuns>>_vars

SpecLoopFair == SpecLoop /\ LoopFairness

----------------------------------------------------------------------------
(* The worker and the ether type of its frames: the same loop where the    *)
(* UI sends SetInterface and then SetEtherType, SendMessage and            *)
(* UpdateUsername commands, the username so long that a Presence has two   *)
(* fragments, the frames read are PresenceReq packets and ARP requests of  *)
(* other hosts, and the adapter does not fail.                             *)

\* number of commands the UI sends
EtherCmds == 3

\* number of frames the worker reads from the network
EtherFrames == 2

\* a username whose Presence has two parts
LongUser == LongName(PACKET_PART_SIZE)

EtherCommands ==
    { SetInterface("eth0"), SetEtherType("IPv4"), SetEtherType("Experimental1"),
      SendMessage(TextHi), UpdateUsername(LongUser) }

EtherInFrames ==
    [n \in 0..EtherFrames |->
        { Send(PEER_MAC, EtherTypeDefault, PresenceReq, InId(n), 0).frames[1],
          ArpFrame(ARP_HTYPE, <<8, 0>>, ARP_HLEN, 4, ARP_OPER,
                   <<10, 0, 0, 1>>) }]

EtherInit == WorkerStart(EtherCmds, EtherFrames)

\* the UI sends SetInterface first and the other commands after it
EtherUiSend(c) ==
    /\ cmdsLeft = EtherCmds <=> c.cmd = "SetInterface"
    /\ UiSend(c)

EtherNext ==
    \/ \E c \in EtherCommands : EtherUiSend(c)
    \/ \E cfg \in ConfigEtherTypes : WOpen(cfg, "Ok")
    \/ WCommand(FALSE)
    \/ \E frame \in EtherInFrames[flightsLeft] : WReceive(TRUE, frame, FALSE)
    \/ \E order \in IterOrders(online) : WHeartbeat(order, FALSE)

SpecEther == EtherInit /\ [][EtherNext]_vars

----------------------------------------------------------------------------
(* Properties of the packet layer (SpecCodec)                              *)

\* C6: for every tag byte and every byte string, also one shorter than the
\* variant's fixed fields, Packet::deserialize returns a packet or "no packet"
\* and never panics, and a tag of 5 or more yields "no packet".
C6_DeserializeNeverPanics ==
    cpc = "deserialized" =>
        /\ cout.kind \in {"Some", "None"}
        /\ cin.tag >= 5 => cout = NoPacket

\* C7: for every packet p of every variant, deserialize(tag(p), serialize(p))
\* is p, and for PresenceReq also over the one-byte placeholder "." that
\* send() substitutes for the empty payload.
C7_RoundTrip ==
    /\ cpc \in {"roundtrip", "wire"} => cout = SomePacket(cin.pkt)
    /\ cpc = "wire" /\ cin.pkt = PresenceReq => cin.data = <<46>>

C7_Witness ==
    /\ cpc = "roundtrip"
    /\ cin.pkt.type = "Message"
    /\ cin.pkt.channel # <<>>
    /\ cin.pkt.message = <<120, 195, 169>>
    /\ cout = SomePacket(cin.pkt)

----------------------------------------------------------------------------
(* Properties of the sending side (SpecSend)                               *)

\* the number of frames a payload of len bytes needs, 241 bytes to a frame
FramesFor(len) == (len + 240) \div 241

WireFragments == [k \in 1..Len(wire) |-> ParseFrame(wire[k])]

\* C8: a send() that returns Ok for a packet of serialized length len > 0
\* has emitted exactly ceil(len / 241) frames; all carry the tag of the
\* packet, the PacketId drawn and total = n - 1, frame k (from 0) carries
\* seq = k, no inner fragment is longer than 241 bytes, and the inner
\* fragments concatenated in seq order are the serialized packet.
C8_SendFragments ==
    (spc = "sent" /\ sres = "Ok" /\ Len(Serialize(sin.pkt)) > 0) =>
        LET n == FramesFor(Len(Serialize(sin.pkt)))
        IN  /\ Len(wire) = n
            /\ \A k \in 1..Len(wire) :
                    /\ WireFragments[k].kind = "Fragment"
                    /\ WireFragments[k].tag = Tag(sin.pkt)
                    /\ WireFragments[k].id = sin.id
                    /\ WireFragments[k].total = n - 1
                    /\ WireFragments[k].seq = k - 1
                    /\ Len(WireFragments[k].inner) <= 241
            /\ Concat([k \in 1..Len(wire) |-> WireFragments[k].inner])
                    = Serialize(sin.pkt)

C8_Witness ==
    /\ spc = "sent"
    /\ sres = "Ok"
    /\ Len(Serialize(sin.pkt)) = 500
    /\ Len(wire) = 3

\* C9: send() of a packet that needs more than 256 fragments returns the
\* too-long error and emits no frame; a packet that needs exactly 256
\* fragments is sent in full, with total = 255 (unless the adapter fails).
C9_TooLong ==
    spc = "sent" =>
        LET n == FramesFor(Len(Serialize(sin.pkt)))
        IN  /\ n > 256 => sres = "MsgTooLong" /\ wire = <<>>
            /\ n <= 256 => sres # "MsgTooLong"
            /\ (n = 256 /\ sin.failAt = 0) =>
                    /\ sres = "Ok"
                    /\ Len(wire) = 256
                    /\ ParseFrame(wire[256]).total = 255
                    /\ ParseFrame(wire[256]).seq = 255

C9_Witness ==
    /\ spc = "sent"
    /\ FramesFor(Len(Serialize(sin.pkt))) = 257
    /\ sres = "MsgTooLong"
    /\ wire = <<>>

----------------------------------------------------------------------------
(* Properties of the receiving side (SpecRecv, SpecFuzz)                   *)

\* C1: of a packet that send() split into n parts, fed to the receiver in
\* any order, try_recv delivers nothing before the last missing part is fed,
\* delivers on that part the packet sent, and delivers it once.
C1_ReassemblyAnyOrder ==
    \A f \in 1..Len(flights) :
        /\ flights[f].count = IF flights[f].got = FlightParts(f) THEN 1 ELSE 0
        /\ flights[f].count = 1 => flights[f].out = SomePacket(flights[f].pkt)

\* the three-part packet, completed by its part of seq 0
C1_Witness ==
    \E f \in 1..Len(flights) :
        /\ Len(FlightFrames(f)) = 3
        /\ flights[f].count = 1
        /\ rin.kind = "peer"
        /\ rin.on = 1
        /\ rres = SomePacket(flights[f].pkt)

\* C2: a fragment whose PacketId is in the RecencyRing is dropped: the
\* reassembly map and the ring stay as they are and nothing is delivered; so
\* a packet whose parts are all fed twice in a row is delivered once.
C2_DuplicateDropped ==
    [][\A f \in 1..Len(flights) :
        /\ (RingContains(recent, flights[f].id) /\ flights'[f] # flights[f]) =>
                /\ buffer' = buffer
                /\ recent' = recent
                /\ rres' = NoPacket
        /\ flights'[f].count <= 1]_vars

C2_Witness ==
    \E f \in 1..Len(flights) :
        /\ Len(FlightFrames(f)) = 3
        /\ flights[f].again = FlightParts(f)
        /\ flights[f].count = 1

\* C3: whatever fragments with the "uwu" magic arrive (seq > total, a
\* PacketId repeated with another total, fewer than 8 bytes after the total),
\* the worker does not crash, and a well-formed packet with a fresh PacketId
\* is still delivered afterwards.
C3_NeverCrashes ==
    /\ rres.kind # "Panic"
    /\ \A f \in 1..Len(flights) :
            (flights[f].id \notin advIds /\ flights[f].got = FlightParts(f))
                => flights[f].count = 1

\* a frame that no send() made was read in this step
AdvStep == advLeft' < advLeft

\* C4: the slot vector of an entry keeps the length total + 1 of the first
\* fragment of its PacketId, and a later fragment with that PacketId and
\* another total is ignored: map and ring stay as they are, nothing is
\* delivered.
C4_ConflictingTotalIgnored ==
    [][/\ \A id \in DOMAIN buffer \cap DOMAIN buffer' :
                Len(buffer'[id]) = Len(buffer[id])
       /\ (/\ AdvStep
           /\ rin'.frag.kind = "Fragment"
           /\ rin'.known
           /\ rin'.len # rin'.frag.total + 1) =>
                /\ buffer' = buffer
                /\ recent' = recent
                /\ rres' = NoPacket]_vars

\* the frame has all the fields the filter looks at, with the values it
\* asks for
PassesFilter(frame) ==
    /\ Len(frame) >= ETH_HEADER_LEN + 14 + 3
    /\ SubSeq(frame, 13, 14) = <<8, 6>>
    /\ SubSeq(frame, 15, 16) = <<0, 1>>
    /\ frame[19] = 6
    /\ SubSeq(frame, 21, 22) = <<0, 1>>
    /\ SubSeq(frame, 29, 31) = <<117, 119, 117>>

\* C5: try_recv processes a frame as a fragment iff its EtherType is ARP,
\* its Hardware Type 1, its Hardware Address Length 6, its Operation 1 and
\* its Sender Protocol Address starts with "uwu", whatever its Protocol Type;
\* on any other frame, also one too short for these fields, it returns no
\* packet and leaves the reassembly map and the ring as they are.
C5_FilterGate ==
    [][AdvStep =>
        IF PassesFilter(rin'.frame)
        THEN rin'.frag.kind = "Fragment"
        ELSE /\ rres' = NoPacket
             /\ buffer' = buffer
             /\ recent' = recent]_vars

----------------------------------------------------------------------------
(* Properties of the network worker (SpecWorker)                           *)

\* the step in which the worker processes its first UpdateUsername on the
\* open channel
FirstUpdateUsername == updates = 0 /\ updates' = 1

\* no channel.send() of the step failed
SendsOk == \A i \in DOMAIN sent' : sent'[i].res = "Ok"

\* C10: the worker is in NeedsUsername until the channel is open, and the
\* step that processes the first UpdateUsername on the open channel sends
\* exactly one packet, a PresenceReq, and leaves the worker in
\* NeedsInitialPresence (unless the adapter fails to send), whatever frames
\* the worker has read before.
C10_FirstUpdateUsername ==
    [][ /\ channel = "none" => state = "NeedsUsername"
        /\ FirstUpdateUsername /\ SendsOk =>
                /\ sent' = <<[pkt |-> PresenceReq, res |-> "Ok"]>>
                /\ state' = "NeedsInitialPresence" ]_vars

\* the step is the heartbeat part of the loop body
HeartbeatStep == wpc = "beat" /\ wpc' # "beat"

\* the packet the step has read is a Presence that carries local_id
OwnPresenceRead ==
    /\ wpc = "recv" /\ wpc' = "beat"
    /\ rres'.kind = "Some"
    /\ rres'.pkt.type = "Presence"
    /\ rres'.pkt.id = LOCAL_ID

\* C11: the worker leaves NeedsInitialPresence only for Ready and only in a
\* step that has read a Presence carrying its own PeerId, and the heartbeat
\* part of the loop sends nothing while the state is not Ready.
C11_WaitsForOwnPresence ==
    [][ /\ state = "NeedsInitialPresence" /\ state' # state =>
                state' = "Ready" /\ OwnPresenceRead
        /\ HeartbeatStep /\ state # "Ready" =>
                sent' = <<>> /\ last_heartbeat' = last_heartbeat ]_vars

\* a heartbeat was due in NeedsInitialPresence and none was sent
C11_Witness ==
    /\ state = "NeedsInitialPresence"
    /\ wpc = "cmd"
    /\ flightsLeft < WorkerFrames
    /\ HeartbeatDueAnyState
    /\ sent = <<>>

\* C12: the state of the worker only advances NeedsUsername ->
\* NeedsInitialPresence -> Ready: no step takes it from NeedsUsername to
\* Ready, none takes it back, and no step changes it once it is Ready.
C12_StateOnlyAdvances ==
    [][ /\ state = "NeedsUsername" =>
                state' \in {"NeedsUsername", "NeedsInitialPresence"}
        /\ state = "NeedsInitialPresence" =>
                state' \in {"NeedsInitialPresence", "Ready"}
        /\ state = "Ready" => state' = "Ready" ]_vars

\* the step is the receiving part of the loop body and try_recv() has
\* returned a packet of this type
Received(type) ==
    /\ wpc = "recv" /\ wpc' # "recv"
    /\ rres'.kind = "Some"
    /\ rres'.pkt.type = type

\* C13: the step that receives a PresenceReq gives exactly one packet to
\* channel.send(): a Presence with the worker's own PeerId and its current
\* username whose is_join is true exactly when the state is
\* NeedsInitialPresence (false in NeedsUsername and in Ready); the state
\* and the username are as before.
C13_PresenceReqAnswered ==
    [][ Received("PresenceReq") =>
            /\ Len(sent') = 1
            /\ sent'[1].pkt =
                   Presence(LOCAL_ID, state = "NeedsInitialPresence",
                            local_username)
            /\ sent'[1].res \in {"Ok", "ARPSendFailed"}
            /\ state' = state
            /\ local_username' = local_username ]_vars

\* a PresenceReq was answered with is_join = true
C13_Witness ==
    /\ wpc = "beat"
    /\ rres = SomePacket(PresenceReq)
    /\ state = "NeedsInitialPresence"
    /\ sent = <<[pkt |-> Presence(LOCAL_ID, TRUE, NameAl), res |-> "Ok"]>>

----------------------------------------------------------------------------
(* Properties of the roster (SpecRoster)                                   *)

\* the step has put a PresenceUpdate of this kind on tx
UpdateEmitted(kind) ==
    \E i \in DOMAIN events' :
        events'[i].ev = "PresenceUpdate" /\ events'[i].kind = kind

\* C14: the step that receives a Presence for a PeerId that is in the roster
\* emits a PresenceUpdate of kind UsernameChange(former) exactly when the
\* username received differs from the one stored, and stores the username
\* received with the time of the step.
C14_UsernameChangeOnlyOnChange ==
    [][ Received("Presence") /\ rres'.pkt.id \in DOMAIN online =>
            LET p == rres'.pkt
                former == online[p.id].username
            IN  /\ UpdateEmitted(UsernameChange(former)) <=> p.name # former
                /\ online'[p.id] = [at |-> now, username |-> p.name] ]_vars

\* C15: the step that receives a Presence for a PeerId that is not in the
\* roster emits one PresenceUpdate with inactive = false, of kind
\* JoinOrReconnect if is_join is true or that PeerId is in the offline set (a
\* timeout has put it there), and of kind Boring otherwise.
C15_JoinOrReconnect ==
    [][ Received("Presence") /\ rres'.pkt.id \notin DOMAIN online =>
            LET p == rres'.pkt
            IN  events' =
                    <<PresenceUpdate(p.id, p.name, FALSE,
                                     IF p.is_join \/ p.id \in offline
                                     THEN JoinOrReconnect ELSE Boring)>> ]_vars

\* C16: the step that receives a Disconnect(peer) takes peer out of the
\* roster and emits RemovePresence(peer, stored username) if peer is in the
\* roster, and emits nothing and leaves the roster as it is otherwise; it
\* sends nothing and changes neither the offline set, the state, the
\* username nor the heartbeat.
C16_DisconnectRemoves ==
    [][ Received("Disconnect") =>
            LET peer == rres'.pkt.id
            IN  /\ peer \notin DOMAIN online'
                /\ \A id \in DOMAIN online \ {peer} :
                        id \in DOMAIN online' /\ online'[id] = online[id]
                /\ DOMAIN online' \subseteq DOMAIN online
                /\ events' = IF peer \in DOMAIN online
                             THEN <<RemovePresence(peer, online[peer].username)>>
                             ELSE <<>>
                /\ peer \notin DOMAIN online => online' = online
                /\ sent' = <<>>
                /\ UNCHANGED <<offline, state, local_username, pause_heartbeat,
                               last_heartbeat>> ]_vars

\* a Disconnect has taken a peer out of a roster of two
C16_Witness ==
    /\ wpc = "beat"
    /\ rres = SomePacket(Disconnect(PEER_ID))
    /\ events = <<RemovePresence(PEER_ID, NameBob)>>
    /\ DOMAIN online = {LOCAL_ID}

\* the step has put this event on tx
Emitted(ev) == \E i \in DOMAIN events' : events'[i] = ev

\* the step is a heartbeat part of the loop body that runs the timeout scan
ScanStep == HeartbeatStep /\ last_heartbeat' = now /\ wpc' = "cmd"

----------------------------------------------------------------------------
(* Properties of the worker's commands and errors (SpecWorker)             *)

\* the step is the command part of the loop body and takes this command
Takes(cmd) == wpc = "cmd" /\ wpc' # "cmd" /\ TakeCommand.cmd = cmd

\* C18: a channel is opened only while none is open, and it stays open; the
\* step that takes a SetInterface on the open channel emits
\* Error(InterfaceAlreadySet) and nothing else, sends nothing, ends the
\* worker and leaves the channel as it is.
C18_SetInterfaceOnce ==
    [][ /\ channel' # channel => channel = "none" /\ wpc = "open"
        /\ Takes("SetInterface") =>
                /\ events' = <<Error("InterfaceAlreadySet")>>
                /\ wpc' = "exited"
                /\ sent' = <<>>
                /\ UNCHANGED <<channel, ether_type, buffer, recent>> ]_vars

\* a second SetInterface has ended the worker
C18_Witness ==
    /\ wpc = "exited"
    /\ channel = "some"
    /\ events = <<Error("InterfaceAlreadySet")>>

\* a Terminate is the next command on the queue
TerminateQueued == cmds # <<>> /\ Head(cmds) = Terminate

\* start_net_thread has returned, or its thread has ended in a panic
Returned == wpc \in {"exited", "panicked"}

\* the worker waits in rx.next() and the network has no frame any more
Starved == wpc = "recv" /\ flightsLeft = 0

\* C19: whenever a Terminate is on the command queue, before the channel is
\* open as well as in every state of the open channel, the worker
\* eventually returns, as long as frames arrive for it to read.
C19_TerminateReturns == (TerminateQueued /\ ~Starved) ~> (Returned \/ Starved)

\* the Error events the step has put on tx
ErrorsEmitted == {i \in DOMAIN events' : events'[i].ev = "Error"}

\* the results of channel.send() in the step that are errors
SendErrors == {sent'[i].res : i \in {j \in DOMAIN sent' : sent'[j].res # "Ok"}}

\* the step is the part of the loop body that runs while no channel is open,
\* and takes a SetInterface
OpenStep ==
    /\ wpc = "open"
    /\ TakeCommand.cmd = "SetInterface"
    /\ cmds' # cmds

\* C20: a step in which an error is raised (a send that fails or is too
\* long, other than the send of Disconnect on Terminate, whose result is
\* dropped; a capture failure; a SetInterface whose interface is unknown or
\* cannot be opened; a SetInterface on the open channel) emits exactly one
\* Error event, of that error, as its last event, and ends the worker; an
\* Error event is emitted in no other step; and the worker that has ended
\* takes no step any more, so nothing is emitted or sent after the Error.
C20_ErrorEndsWorker ==
    [][ /\ wpc \notin {"exited", "panicked"}
        /\ ErrorsEmitted # {} =>
                /\ ErrorsEmitted = {Len(events')}
                /\ wpc' = "exited"
        /\ SendErrors # {} /\ ~Takes("Terminate") =>
                /\ ErrorsEmitted # {}
                /\ SendErrors = {events'[Len(events')].err}
        /\ Takes("Terminate") => ErrorsEmitted = {} /\ wpc' = "exited"
        /\ wpc = "recv" /\ wpc' # "recv" /\ rres'.kind = "Err" =>
                events' = <<Error(rres'.err)>>
        /\ OpenStep /\ TakeCommand.name \notin Interfaces =>
                events' = <<Error("InvalidInterface")>> /\ channel' = "none"
        /\ OpenStep /\ channel' = "none" => ErrorsEmitted # {}
        /\ Takes("SetInterface") => ErrorsEmitted # {}
        /\ wpc' = "exited" /\ ~Takes("Terminate") => ErrorsEmitted # {}
      ]_vars

\* a send has failed after the step had emitted an event: the Error is the
\* last event and the worker has ended
C20_Witness ==
    /\ wpc = "exited"
    /\ sent = <<[pkt |-> WorkerMessage(LOCAL_ID, TextHi),
                 res |-> "ARPSendFailed"]>>
    /\ events = <<NewMessage(LOCAL_ID, <<>>, TextHi, TRUE),
                  Error("ARPSendFailed")>>

----------------------------------------------------------------------------
(* Properties of the worker in its steady state (SpecSteady)               *)

\* the packet a heartbeat broadcasts
HeartbeatPacket == Presence(LOCAL_ID, FALSE, local_username)

\* C21: the pause flag changes only in the step that takes a PauseHeartbeat
\* command, to the value the command carries; while it is set no heartbeat
\* part of the loop sends anything, and while it is not set every heartbeat
\* that is due sends one Presence; a step that reads a Presence or a Message
\* while the flag is set stores the peer and emits the events as it does
\* otherwise, and leaves the flag as it is.
C21_PauseSilencesHeartbeat ==
    [][ /\ pause_heartbeat' # pause_heartbeat => Takes("PauseHeartbeat")
        /\ Takes("PauseHeartbeat") => pause_heartbeat' = TakeCommand.pause
        /\ HeartbeatStep /\ pause_heartbeat => sent' = <<>>
        /\ HeartbeatStep /\ ~pause_heartbeat /\ HeartbeatDue =>
                sent' = <<[pkt |-> HeartbeatPacket, res |-> "Ok"]>>
        /\ pause_heartbeat /\ Received("Presence") =>
                LET p == rres'.pkt
                IN  /\ online'[p.id] = [at |-> now, username |-> p.name]
                    /\ Len(events') = 1
                    /\ events'[1].ev = "PresenceUpdate"
                    /\ events'[1].id = p.id
                    /\ events'[1].username = p.name
                    /\ p.id = LOCAL_ID => state' = "Ready"
        /\ pause_heartbeat /\ Received("Message") =>
                LET p == rres'.pkt
                IN  /\ events'[Len(events')].ev = "NewMessage"
                    /\ events'[Len(events')].msg = p.message
                    /\ online' = online
      ]_vars

\* a heartbeat was due while heartbeats were paused: the scan has run and
\* nothing was sent
C21_Witness ==
    /\ wpc = "cmd"
    /\ pause_heartbeat
    /\ state = "Ready"
    /\ now > HEARTBEAT_INTERVAL
    /\ last_heartbeat = now
    /\ sent = <<>>

----------------------------------------------------------------------------
(* Properties of the recency ring (SpecRing)                               *)

\* the PacketIds of the last min(k, RING_CAPACITY) of the k packets delivered
LatestDelivered(delivered) ==
    LET k == Len(delivered)
    IN  {delivered[j] : j \in (k - Min(k, RING_CAPACITY) + 1)..k}

\* the slots of the ring that hold a PacketId
RingFilled(ring) == {i \in 1..Len(ring.data) : ring.data[i] # NoId}

\* C22: after every frame read, the ring holds exactly the PacketIds of the
\* last min(k, 16) packets delivered, each in one slot, where k is the
\* number of packets delivered so far, and once 16 were delivered the next
\* push overwrites the oldest of them; a frame is dropped exactly when its
\* PacketId is among these, so the frame of a packet is dropped while fewer
\* than 16 other packets were delivered since it and is delivered again
\* after that.
C22_RingHoldsLatest ==
    [][ /\ {recent'.data[i] : i \in RingFilled(recent')} =
                LatestDelivered(flights')
        /\ Cardinality(RingFilled(recent')) =
                Min(Len(flights'), RING_CAPACITY)
        /\ Len(flights') >= RING_CAPACITY =>
                recent'.data[recent'.index + 1] =
                    flights'[Len(flights') - RING_CAPACITY + 1]
        /\ rres'.kind = "Some" <=> rin'.id \notin LatestDelivered(flights)
        /\ rres'.kind = "Some" <=> flights' = Append(flights, rin'.id)
      ]_vars

\* the frame of the first packet was dropped when 16 packets had been
\* delivered, and is delivered again now that 17 have been
C22_Witness ==
    /\ Len(flights) = RING_CAPACITY + 2
    /\ flights[RING_CAPACITY + 2] = flights[1]
    /\ advLeft = 0
    /\ rres.kind = "Some"

----------------------------------------------------------------------------
(* Properties of reassembly and the ring (SpecStore)                       *)

\* the step has read a fragment that no send() made
FragmentRead == advLeft' < advLeft /\ rin'.frag.kind = "Fragment"

\* the step has read a frame of the f-th packet sent, and delivered it
Delivered(f) ==
    /\ Len(flights') = Len(flights)
    /\ flights'[f].count = flights[f].count + 1

\* the slots of the fragment's PacketId once the fragment g is stored
StoredParts(g) ==
    LET old == IF g.id \in DOMAIN buffer THEN buffer[g.id]
               ELSE Repeat(<<>>, g.total + 1)
    IN  [old EXCEPT ![g.seq + 1] = g.inner]

\* C23: the ring changes only in a step that delivers a packet, and then by
\* the push of one PacketId whose entry is gone from the reassembly map after
\* the step; the step that delivers a packet pushes the PacketId of the frame
\* it has read, all slots of that PacketId are filled and the packet is their
\* deserialization (the packet sent, with all its parts read, when no other
\* program has used its PacketId); and when the fragment read fills the last empty slot but
\* the bytes do not deserialize, the entry stays in the map with all its
\* slots, the ring is as before and nothing is delivered.
C23_PushOnDelivery ==
    [][ /\ recent' # recent =>
                LET id == recent'.data[recent.index + 1]
                IN  /\ rres'.kind = "Some"
                    /\ recent' = RingPush(recent, id)
                    /\ id \notin DOMAIN buffer'
                    /\ DOMAIN buffer' = DOMAIN buffer \ {id}
        /\ \A f \in 1..Len(flights) : Delivered(f) =>
                /\ recent' = RingPush(recent, flights[f].id)
                /\ flights[f].id \notin DOMAIN buffer'
                /\ rres'.kind = "Some"
                /\ flights[f].id \notin advIds =>
                        /\ flights'[f].got = FlightParts(f)
                        /\ rres' = SomePacket(flights[f].pkt)
        /\ FragmentRead /\ rres'.kind = "Some" =>
                LET g == rin'.frag
                IN  /\ recent' = RingPush(recent, g.id)
                    /\ g.id \notin DOMAIN buffer'
                    /\ AllPartsPresent(StoredParts(g))
                    /\ rres' = Deserialize(g.tag, Concat(StoredParts(g)))
        /\ FragmentRead /\ ~rin'.inRing /\ rres'.kind = "None" =>
                LET g == rin'.frag
                IN  /\ recent' = recent
                    /\ g.id \in DOMAIN buffer'
                    /\ buffer'[g.id] = StoredParts(g)
                    /\ AllPartsPresent(StoredParts(g)) =>
                            Deserialize(g.tag, Concat(StoredParts(g))) = NoPacket
      ]_vars

\* a fragment has filled the last slot of its PacketId and the packet was
\* delivered: the PacketId is in the ring and no more in the map
C23_Witness ==
    /\ rin.kind = "fragment"
    /\ rin.known
    /\ rres.kind = "Some"
    /\ RingContains(recent, rin.frag.id)
    /\ rin.frag.id \notin DOMAIN buffer

----------------------------------------------------------------------------
(* Properties of the timeout scan (SpecRoster)                             *)

\* how many times the step has put this event on tx
EventCount(ev) == Cardinality({i \in DOMAIN events' : events'[i] = ev})

\* the events of the step that are about this PeerId
EventsAbout(id) == {i \in DOMAIN events' : events'[i].id = id}

\* C24: in a heartbeat step that is due, every roster entry silent for more
\* than OFFLINE_TIMEOUT leaves the roster, enters the offline set and gets
\* exactly one event, a RemovePresence; every entry silent for more than
\* INACTIVE_TIMEOUT and not more than OFFLINE_TIMEOUT stays as it is and
\* gets exactly one event, a PresenceUpdate with inactive = true of kind
\* Boring; every younger entry stays as it is and gets no event; and nothing
\* else enters or leaves the roster and the offline set.
C24_TimeoutScan ==
    [][ HeartbeatStep /\ HeartbeatDue =>
            /\ \A id \in DOMAIN online :
                LET silent == now - online[id].at
                    name == online[id].username
                IN  /\ silent > OFFLINE_TIMEOUT =>
                            /\ id \notin DOMAIN online'
                            /\ id \in offline'
                            /\ EventCount(RemovePresence(id, name)) = 1
                            /\ Cardinality(EventsAbout(id)) = 1
                    /\ silent > INACTIVE_TIMEOUT /\ silent <= OFFLINE_TIMEOUT =>
                            /\ id \in DOMAIN online'
                            /\ online'[id] = online[id]
                            /\ id \in offline' <=> id \in offline
                            /\ EventCount(PresenceUpdate(id, name, TRUE,
                                                         Boring)) = 1
                            /\ Cardinality(EventsAbout(id)) = 1
                    /\ silent <= INACTIVE_TIMEOUT =>
                            /\ id \in DOMAIN online'
                            /\ online'[id] = online[id]
                            /\ id \in offline' <=> id \in offline
                            /\ EventsAbout(id) = {}
            /\ DOMAIN online' \subseteq DOMAIN online
            /\ offline \subseteq offline'
            /\ offline' \subseteq offline \cup DOMAIN online ]_vars

\* a heartbeat has removed the peer that was silent for 13 s, and has left
\* the entry read in the same iteration as it was
C24_Witness ==
    /\ wpc = "cmd"
    /\ last_heartbeat = now
    /\ events = <<RemovePresence(PEER_ID, NameBob)>>
    /\ PEER_ID \in offline
    /\ DOMAIN online = {LOCAL_ID}
    /\ online[LOCAL_ID].at = now

----------------------------------------------------------------------------
(* Properties of the worker before its channel is open (SpecWorker)        *)

\* the step is the part of the loop body that runs while no channel is open
\* and takes a command that is not a SetInterface
DiscardStep ==
    /\ wpc = "open"
    /\ cmds # <<>>
    /\ cmds' # cmds
    /\ TakeCommand.cmd # "SetInterface"

\* C25: while no channel is open, the step that takes a command other than
\* SetInterface takes it off the queue and does nothing else: no channel is
\* opened, the username, the pause flag, the state, the ether type, the
\* roster and the heartbeat are as before, nothing is sent, no event is
\* emitted and the worker goes on waiting for a SetInterface.
C25_DiscardedBeforeOpen ==
    [][ DiscardStep =>
            /\ cmds' = Tail(cmds)
            /\ sent' = <<>>
            /\ wire' = <<>>
            /\ events' = <<>>
            /\ wpc' = "open"
            /\ UNCHANGED <<channel, local_username, pause_heartbeat, state,
                           ether_type, online, offline, last_heartbeat,
                           buffer, recent>> ]_vars

\* two commands were taken and discarded before any SetInterface
C25_Witness ==
    /\ wpc = "open"
    /\ channel = "none"
    /\ cmds = <<>>
    /\ cmdsLeft = 0
    /\ state = "NeedsUsername"
    /\ local_username = <<>>
    /\ ~pause_heartbeat

\* the heartbeat step has given a Presence to channel.send()
HeartbeatSent == HeartbeatStep /\ sent' # <<>>

\* C26: while the worker is Ready and heartbeats are not paused, each
\* iteration of the loop whose heartbeat part finds more than
\* HEARTBEAT_INTERVAL elapsed since last_heartbeat sends exactly one
\* Presence(local_id, false, current username) and restarts the interval at
\* the time of the step, so the gap is the interval and what is left of one
\* iteration; a heartbeat is sent in no other step, last_heartbeat changes
\* only in a heartbeat step that is due, to the time of the step, and so
\* every heartbeat is sent at least HEARTBEAT_INTERVAL after the one before.
C26_HeartbeatPeriod ==
    [][ /\ HeartbeatStep /\ state = "Ready" /\ ~pause_heartbeat
            /\ now - last_heartbeat > HEARTBEAT_INTERVAL =>
                /\ sent' = <<[pkt |-> HeartbeatPacket, res |-> "Ok"]>>
                /\ last_heartbeat' = now
        /\ HeartbeatSent =>
                /\ now - last_heartbeat >= HEARTBEAT_INTERVAL
                /\ state = "Ready"
                /\ last_heartbeat' = now
        /\ last_heartbeat' # last_heartbeat =>
                /\ HeartbeatStep
                /\ last_heartbeat' = now
                /\ now - last_heartbeat >= HEARTBEAT_INTERVAL
        /\ last_heartbeat <= now
        /\ now' >= now
      ]_vars

\* the worker became Ready at 4 s and sent its first heartbeat in that
\* iteration; the next iteration, which read a peer's Presence at 8 s, has
\* sent the second
C26_Witness ==
    /\ wpc = "cmd"
    /\ state = "Ready"
    /\ ~pause_heartbeat
    /\ cmdsLeft = SteadyCmds - 1
    /\ now = 2 * (HEARTBEAT_INTERVAL + 1)
    /\ last_heartbeat = now
    /\ sent = <<[pkt |-> Presence(LOCAL_ID, FALSE, <<>>), res |-> "Ok"]>>
    /\ DOMAIN online = {LOCAL_ID, PEER_ID}
    /\ online[LOCAL_ID].at = HEARTBEAT_INTERVAL + 1
    /\ online[PEER_ID].at = now

----------------------------------------------------------------------------
(* Properties of the ether type of the worker's frames (SpecEther)         *)

\* the ARP Protocol Type field of a frame
ProtocolType(frame) == Slice(frame, ETH_HEADER_LEN + 2, ETH_HEADER_LEN + 4)

\* the ether type of the channel, once it has any
EtherTypeSet == IF channel = "some" THEN {ether_type} ELSE {}

\* C27: every frame a step hands to the adapter carries in its Protocol Type
\* field the bytes of the channel's ether type, all fragments of a packet
\* alike; the step that opens the channel sets the ether type to the
\* configured one, or to Experimental1 (0x88B5) when none is configured; the
\* step that takes a SetEtherType sets it to the selector of the command and
\* sends nothing; and no other step changes it.
C27_EtherTypeOfFrames ==
    [][ /\ \A i \in DOMAIN wire' :
                ProtocolType(wire'[i]) = EtherTypeBytes(ether_type)
        /\ Takes("SetEtherType") =>
                ether_type' = TakeCommand.ether_type /\ wire' = <<>>
        /\ OpenStep /\ channel' = "some" =>
                /\ sin'.ether_type = "None" =>
                        /\ ether_type' = "Experimental1"
                        /\ EtherTypeBytes(ether_type') = <<136, 181>>
                /\ sin'.ether_type # "None" => ether_type' = sin'.ether_type
                /\ wire' = <<>>
        /\ EtherTypeSet' # EtherTypeSet =>
                Takes("SetEtherType") \/ (OpenStep /\ channel' = "some")
        /\ wire' # <<>> => channel = "some" /\ ether_type' = ether_type
      ]_vars

\* the two fragments of a Presence, sent after SetEtherType(IPv4) on a
\* channel opened with Experimental2 configured, carry 0x0800
C27_Witness ==
    /\ sin = [kind |-> "config", ether_type |-> "Experimental2"]
    /\ ether_type = "IPv4"
    /\ Len(wire) = 2
    /\ \A i \in DOMAIN wire : ProtocolType(wire[i]) = <<8, 0>>

----------------------------------------------------------------------------
(* Properties of the frames of send_part (SpecSend)                        *)

\* the ARP payload of a frame, after the Ethernet header
ArpPayload(frame) == SliceFrom(frame, ETH_HEADER_LEN)

\* the Protocol Address Length byte of a frame
ProtocolLen(frame) == ArpPayload(frame)[6]

\* the Sender and the Target Protocol Address regions of a frame
SenderProtocolAddress(frame) ==
    Slice(ArpPayload(frame), 14, 14 + ProtocolLen(frame))

TargetProtocolAddress(frame) ==
    Slice(ArpPayload(frame), 20 + ProtocolLen(frame),
          20 + 2 * ProtocolLen(frame))

\* C28: the k-th frame send() has handed to the adapter, built by send_part
\* for the tag of the packet, seq = k - 1, total = n - 1, the PacketId drawn
\* and the k-th part (of at most 241 bytes), has Protocol Address Length
\* 14 + |part| <= 255, ends with the Target Protocol Address, carries the
\* bytes "uwu", tag, seq, total, PacketId, part in both Protocol Address
\* regions, and is parsed by try_recv into the same tag, seq, total, PacketId
\* and part.
C28_FrameLayout ==
    spc = "sent" =>
        LET parts == SendParts(Serialize(sin.pkt))
        IN  \A k \in 1..Len(wire) :
                LET frame == wire[k]
                    part == parts[k]
                    bytes == <<117, 119, 117>>
                                \o <<Tag(sin.pkt), k - 1, Len(parts) - 1>>
                                \o sin.id \o part
                IN  /\ Len(part) <= 241
                    /\ ProtocolLen(frame) = 14 + Len(part)
                    /\ ProtocolLen(frame) <= 255
                    /\ Len(frame) = ETH_HEADER_LEN + 20 + 2 * ProtocolLen(frame)
                    /\ SenderProtocolAddress(frame) = bytes
                    /\ TargetProtocolAddress(frame) = bytes
                    /\ ParseFrame(frame) =
                            [kind |-> "Fragment", tag |-> Tag(sin.pkt),
                             seq |-> k - 1, total |-> Len(parts) - 1,
                             id |-> sin.id, inner |-> part]

\* a frame with a part of 241 bytes, whose Protocol Address Length is 255,
\* and after it the frame of the last part of the packet
C28_Witness ==
    /\ spc = "sent"
    /\ sres = "Ok"
    /\ Len(wire) = 2
    /\ ProtocolLen(wire[1]) = 255
    /\ ProtocolLen(wire[2]) = 15

----------------------------------------------------------------------------
(* Properties of packets without payload (SpecRecv)                        *)

\* the packets sent so far whose serialized payload is empty
EmptyFlights ==
    {f \in 1..Len(flights) : Serialize(flights[f].pkt) = <<>>}

\* C29: send() of a packet whose serialized payload is empty (PresenceReq)
\* emits exactly one frame, with seq = 0, total = 0 and the one byte "." as
\* inner; once the receiver has read that frame the packet has been
\* delivered, exactly once and as the packet sent, with no entry left in the
\* reassembly buffer.
C29_EmptyPayloadOneFrame ==
    \A f \in EmptyFlights :
        LET frames == FlightFrames(f)
            frag == ParseFrame(frames[1])
        IN  /\ flights[f].pkt = PresenceReq
            /\ Len(frames) = 1
            /\ frag.kind = "Fragment"
            /\ frag.tag = Tag(flights[f].pkt)
            /\ frag.seq = 0
            /\ frag.total = 0
            /\ frag.id = flights[f].id
            /\ frag.inner = <<46>>
            /\ flights[f].id \notin DOMAIN buffer
            /\ flights[f].got = {1} =>
                    /\ flights[f].count = 1
                    /\ flights[f].out = SomePacket(flights[f].pkt)

\* try_recv() has just returned a PresenceReq on reading its one frame
C29_Witness ==
    /\ rin.kind = "peer"
    /\ rin.on = 1
    /\ rres = SomePacket(PresenceReq)
    /\ \E f \in EmptyFlights :
            /\ flights[f].got = {1}
            /\ flights[f].again = {}
            /\ flights[f].count = 1

----------------------------------------------------------------------------
(* Properties of received messages (SpecSteady)                            *)

\* the NewMessage events of the step
NewMessages == {i \in DOMAIN events' : events'[i].ev = "NewMessage"}

\* the username the roster holds for this PeerId before the step
RosterName(id) ==
    IF id \in DOMAIN online THEN online[id].username
    ELSE <<117, 110, 107, 110, 111, 119, 110>>

\* C30: the step that receives a Message packet emits exactly one NewMessage
\* event; it carries the author's PeerId, the text, and as username the one
\* the roster holds for the author before the step, or "unknown" when the
\* roster has no entry for the author; the step leaves the roster, the
\* offline set and the state as they are.
C30_MessageEvent ==
    [][Received("Message") =>
            /\ Cardinality(NewMessages) = 1
            /\ \A i \in NewMessages :
                    events'[i] = [ev |-> "NewMessage",
                                  id |-> rres'.pkt.author,
                                  username |-> RosterName(rres'.pkt.author),
                                  msg |-> rres'.pkt.message,
                                  own |-> FALSE]
            /\ UNCHANGED <<online, offline, state>>]_vars

\* a Message of a peer in the roster has just been received and its event
\* carries the peer's username
C30_Witness ==
    /\ wpc = "beat"
    /\ rres.kind = "Some"
    /\ rres.pkt.type = "Message"
    /\ rres.pkt.author = PEER_ID
    /\ PEER_ID \in DOMAIN online
    /\ online[PEER_ID].username = NameBob
    /\ events # <<>>
    /\ events[Len(events)].ev = "NewMessage"
    /\ events[Len(events)].username = NameBob

----------------------------------------------------------------------------
(* Properties of the worker on a link that returns its frames              *)
(* (SpecLoopFair)                                                          *)

\* C31: on a link that returns the worker's own frames without loss, a
\* worker that has taken SetInterface and its first UpdateUsername (it is in
\* NeedsInitialPresence) reaches Ready; before that it answers the
\* PresenceReq it receives with a Presence whose is_join is true, and the
\* step that makes it Ready is the one that receives a Presence with its own
\* PeerId and is_join true.
C31_ReachesReady ==
    /\ [][/\ state # "Ready" /\ Received("PresenceReq") =>
                /\ state = "NeedsInitialPresence"
                /\ Len(sent') = 1
                /\ sent'[1].pkt = Presence(LOCAL_ID, TRUE, local_username)
          /\ state # "Ready" /\ state' = "Ready" =>
                /\ Received("Presence")
                /\ rres'.pkt.id = LOCAL_ID
                /\ rres'.pkt.is_join]_vars
    /\ (state = "NeedsInitialPresence") ~> (state = "Ready")

\* the worker has just become Ready on its own Presence, after it had read
\* a peer's frame and the frame of its own message
C31_Witness ==
    /\ state = "Ready"
    /\ wpc = "beat"
    /\ rres = SomePacket(Presence(LOCAL_ID, TRUE, NameAl))
    /\ LOCAL_ID \in DOMAIN online
    /\ PEER_ID \in DOMAIN online
    /\ flightsLeft = LoopFrames - 4

----------------------------------------------------------------------------
(* Properties of the reassembly map under fragments that never complete    *)
(* (SpecFlood)                                                             *)

\* the PacketIds read so far whose packet has not been delivered
Undelivered == {id \in advIds : ~RingContains(recent, id)}

\* C32: an entry leaves the reassembly map only in the step in which
\* try_recv completes its packet, deserializes it and returns it; every
\* other entry, incomplete or complete with bytes that do not deserialize,
\* stays: the map holds an entry for every PacketId read and not delivered,
\* and the first fragment of every new PacketId adds one entry, so the
\* number of entries grows with the number of PacketIds that never complete.
C32_NoEviction ==
    /\ [](DOMAIN buffer = Undelivered)
    /\ [][/\ \A id \in DOMAIN buffer \ DOMAIN buffer' :
                /\ rres'.kind = "Some"
                /\ rin'.frag.id = id
                /\ RingContains(recent', id)
          /\ (rin' # rin /\ rin'.frag.id \notin advIds) =>
                Cardinality(DOMAIN buffer') = Cardinality(DOMAIN buffer) + 1
         ]_vars

\* the map holds an entry for each of the PacketIds, one of them complete
\* with bytes that do not deserialize, and try_recv has just returned None
C32_Witness ==
    /\ Cardinality(DOMAIN buffer) = FloodIds
    /\ \E id \in DOMAIN buffer : AllPartsPresent(buffer[id])
    /\ \E id \in DOMAIN buffer : ~AllPartsPresent(buffer[id])
    /\ rres = NoPacket
    /\ rin.kind = "fragment"

----------------------------------------------------------------------------
(* Properties of Terminate on the open channel (SpecWorker)                *)

\* C33: the step that takes a Terminate on the open channel gives exactly
\* one packet to channel.send(), Disconnect with the worker's PeerId, and
\* ends the worker; whether that send succeeds or fails, the step emits no
\* event, so no Error; when it fails no frame has left; and the step leaves
\* the rest of the worker's state as it is.
C33_TerminateDisconnects ==
    [][Takes("Terminate") =>
            /\ Len(sent') = 1
            /\ sent'[1].pkt = Disconnect(LOCAL_ID)
            /\ events' = <<>>
            /\ wpc' = "exited"
            /\ sent'[1].res = "Ok" =>
                    /\ Len(wire') = 1
                    /\ ParseFrame(wire'[1]).tag = Tag(Disconnect(LOCAL_ID))
                    /\ ParseFrame(wire'[1]).inner = LOCAL_ID
            /\ sent'[1].res # "Ok" => wire' = <<>>
            /\ UNCHANGED <<channel, state, local_username, pause_heartbeat,
                           online, offline>>]_vars

\* the send of the Disconnect has failed and the worker has ended without
\* an event
C33_Witness ==
    /\ wpc = "exited"
    /\ sent = <<[pkt |-> Disconnect(LOCAL_ID), res |-> "ARPSendFailed"]>>
    /\ events = <<>>
    /\ wire = <<>>

----------------------------------------------------------------------------
(* Properties of the recency ring and the reassembly map (SpecRingParts)   *)

\* C34: no PacketId is in two slots of the recency ring, and no key of the
\* reassembly map is in the recency ring.
C34_RingAndBufferDisjoint ==
    /\ \A i, j \in 1..Len(recent.data) :
            i # j /\ recent.data[i] # NoId => recent.data[i] # recent.data[j]
    /\ \A id \in DOMAIN buffer : ~RingContains(recent, id)

\* the ring has wrapped around, and the reassembly map holds a part under a
\* PacketId that was delivered before and has left the ring since
C34_Witness ==
    /\ Len(flights) > RING_CAPACITY
    /\ \A i \in 1..Len(recent.data) : recent.data[i] # NoId
    /\ \E id \in DOMAIN buffer : \E k \in 1..Len(flights) : flights[k] = id

----------------------------------------------------------------------------
(* Properties of the roster and the offline set (SpecRoster)               *)

\* C35: no PeerId is at the same time in the roster and in the offline set.
C35_RosterOfflineDisjoint == DOMAIN online \cap offline = {}

----------------------------------------------------------------------------
(* Properties of the timeout scan under paused heartbeats (SpecPaused)     *)

\* the step is one of the worker, and events' is what it emits
WorkerStep == wpc' # wpc

\* the step reports a roster entry inactive
InactiveReported ==
    /\ WorkerStep
    /\ \E i \in DOMAIN events' :
            events'[i].ev = "PresenceUpdate" /\ events'[i].inactive

\* the step removes a roster entry that no Disconnect names, or adds to the
\* offline set
RemovedByTimeout ==
    \/ offline' \ offline # {}
    \/ /\ WorkerStep
       /\ ~Received("Disconnect")
       /\ \E i \in DOMAIN events' : events'[i].ev = "RemovePresence"

\* the step is a heartbeat part of the loop body, more than
\* HEARTBEAT_INTERVAL after the last heartbeat, in state Ready
ReadyTick ==
    /\ HeartbeatStep
    /\ state = "Ready"
    /\ now - last_heartbeat > HEARTBEAT_INTERVAL

\* C36: a roster entry is reported inactive or removed by timeout only in a
\* heartbeat step that is due in state Ready, so never before the worker is
\* Ready; and every such step, with heartbeats paused or not, reports the
\* entries silent for more than INACTIVE_TIMEOUT inactive, removes those
\* silent for more than OFFLINE_TIMEOUT, and restarts the interval; with
\* heartbeats paused it sends nothing.
C36_ScanWhenReady ==
    [][ /\ InactiveReported \/ RemovedByTimeout => ReadyTick
        /\ ReadyTick =>
            /\ \A id \in DOMAIN online :
                LET silent == now - online[id].at
                    name == online[id].username
                IN  /\ silent > OFFLINE_TIMEOUT =>
                            /\ Emitted(RemovePresence(id, name))
                            /\ id \notin DOMAIN online'
                            /\ id \in offline'
                    /\ silent > INACTIVE_TIMEOUT /\ silent <= OFFLINE_TIMEOUT =>
                            /\ Emitted(PresenceUpdate(id, name, TRUE, Boring))
                            /\ id \in DOMAIN online'
            /\ last_heartbeat' = now
            /\ pause_heartbeat => sent' = <<>>
            /\ ~pause_heartbeat => Len(sent') = 1 ]_vars

\* with heartbeats paused, a heartbeat step has removed the peer that was
\* silent for 13 s and has sent nothing
C36_Witness ==
    /\ wpc = "cmd"
    /\ state = "Ready"
    /\ pause_heartbeat
    /\ last_heartbeat = now
    /\ now = 13
    /\ sent = <<>>
    /\ PEER_ID \in offline
    /\ PEER_ID \notin DOMAIN online
    /\ \E i \in DOMAIN events : events[i] = RemovePresence(PEER_ID, NameBob)

----------------------------------------------------------------------------
(* Properties of the answer to PresenceReq while heartbeats are paused     *)
(* (SpecReply)                                                             *)

\* the packet the one frame of the step carries
WirePacket ==
    LET frag == ParseFrame(wire'[1])
    IN  Deserialize(frag.tag, frag.inner)

\* C37: the step that receives a PresenceReq, with heartbeats paused as
\* well as not, gives one Presence with the worker's PeerId and its current
\* username to channel.send(), and one frame that carries this Presence
\* leaves; the step does not change the pause flag.
C37_ReplyWhilePaused ==
    [][Received("PresenceReq") =>
            /\ Len(sent') = 1
            /\ sent'[1].pkt.type = "Presence"
            /\ sent'[1].pkt.id = LOCAL_ID
            /\ sent'[1].pkt.name = local_username
            /\ sent'[1].pkt.is_join = (state = "NeedsInitialPresence")
            /\ Len(wire') = 1
            /\ WirePacket = SomePacket(sent'[1].pkt)
            /\ UNCHANGED pause_heartbeat]_vars

\* with heartbeats paused and the worker Ready, a PresenceReq has just been
\* answered with the worker's Presence
C37_Witness ==
    /\ pause_heartbeat
    /\ state = "Ready"
    /\ wpc = "beat"
    /\ rres = SomePacket(PresenceReq)
    /\ sent = <<[pkt |-> Presence(LOCAL_ID, FALSE, NameAl), res |-> "Ok"]>>
    /\ Len(wire) = 1

----------------------------------------------------------------------------
(* The UI context's shutdown against the worker's return (SpecShutdown)    *)

\* number of commands the UI forwards before it shuts down
ShutCmds == 2

\* number of frames the worker reads from the network
ShutFrames == 1

\* the commands the UI forwards
ShutCommands ==
    { SetInterface("eth0"), SetInterface("nope"), UpdateUsername(NameAl) }

\* the frames that arrive
ShutInFrames == [n \in 0..ShutFrames |-> InFramesOf(n)]

\* run() has made both queues and spawned the worker
ShutdownInit == WorkerStart(ShutCmds, ShutFrames)

\* the worker's Receiver<NetCommand> is dropped: its function has returned
\* after the loop's break, or its thread has unwound after a panic
RxDropped == wpc \in {"returned", "unwound"}

\* the worker's function returns after the break of its loop, or its thread
\* finishes unwinding, and the locals rx and tx are dropped
WReturn ==
    /\ wpc \in {"exited", "panicked"}
    /\ wpc' = IF wpc = "exited" THEN "returned" ELSE "unwound"
    /\ UNCHANGED <<channel, state, local_username, pause_heartbeat,
                   last_heartbeat, online, offline, cmds, cmdsLeft, now,
                   events, sent, updates, upc>>
    /\ UNCHANGED <<codecVars, sendVars, recvVars>>

\* siv.quit(): the quit leaf of the menu, or the Exit button of the dialog
\* of an Error, ends the while loop of run()
UiQuit ==
    /\ upc = "running"
    /\ upc' = "terminate"
    /\ UNCHANGED <<wpc, channel, state, local_username, pause_heartbeat,
                   last_heartbeat, online, offline, cmds, cmdsLeft, now,
                   events, sent, updates>>
    /\ UNCHANGED <<codecVars, sendVars, recvVars>>

\* Sender::send on the command queue: Err(SendError) when the receiver is
\* dropped, else the command is queued
QueueSend(c) == IF RxDropped THEN "SendError" ELSE "Ok"

\* net_tx.send(NetCommand::Terminate).unwrap()
UiTerminate ==
    /\ upc = "terminate"
    /\ IF QueueSend(Terminate) = "Ok"
       THEN /\ cmds' = Append(cmds, Terminate)
            /\ upc' = "join"
       ELSE /\ upc' = "send_panicked"
            /\ UNCHANGED cmds
    /\ UNCHANGED <<wpc, channel, state, local_username, pause_heartbeat,
                   last_heartbeat, online, offline, cmdsLeft, now, events,
                   sent, updates>>
    /\ UNCHANGED <<codecVars, sendVars, recvVars>>

\* net_thread.join().unwrap(): waits for the worker's thread to end, and
\* panics when that thread has panicked
UiJoin ==
    /\ upc = "join"
    /\ RxDropped
    /\ upc' = IF wpc = "returned" THEN "done" ELSE "join_panicked"
    /\ UNCHANGED <<wpc, channel, state, local_username, pause_heartbeat,
                   last_heartbeat, online, offline, cmds, cmdsLeft, now,
                   events, sent, updates>>
    /\ UNCHANGED <<codecVars, sendVars, recvVars>>

ShutdownNext ==
    \/ \E c \in ShutCommands : UiSend(c)
    \/ Tick
    \/ \E opened \in OpenResults : WOpen("None", opened)
    \/ \E fail \in BOOLEAN : WCommand(fail)
    \/ \E frame \in ShutInFrames[flightsLeft] : WReceive(TRUE, frame, FALSE)
    \/ \E order \in IterOrders(online) : WHeartbeat(order, FALSE)
    \/ WReturn
    \/ UiQuit
    \/ UiTerminate
    \/ UiJoin

SpecShutdown == ShutdownInit /\ [][ShutdownNext]_vars

\* C38: in every interleaving of the UI context and the worker, the send of
\* Terminate on the command queue in the UI's shutdown does not fail, also
\* when the worker has already returned after emitting an Error, so the
\* shutdown goes on to the join.
C38_ShutdownSendSucceeds == upc # "send_panicked"

============================================================================
